---- MODULE Spec2Model ----
(***************************************************************************)
(* Round-based routing simulators of lab7: distance-vector (rip_sim.py),   *)
(* link-state (ospf_sim.py / isis_sim.py) and path-vector (bgp_sim.py).    *)
(* Every simulator is a loop of synchronous rounds: snapshot every node,   *)
(* deliver each node's snapshot to each neighbour, count the changes.      *)
(* One TLA+ step is one delivery (one call of process_update, one pass of   *)
(* a neighbour over a sender's LSDB snapshot, one call of receive_update). *)
(***************************************************************************)
EXTENDS Integers, Sequences, FiniteSets, TLC

\* ------------------------------------------------------------------------
\* Bounds of the model
\* ------------------------------------------------------------------------
MaxNodes == 4
MaxEdges == 3
MaxCalls == 2
MaxWithdrawals == 1
MaxPackets == 4
MaxRoutes == 2
MaxSeq == 3
MaxPathLen == 2
MaxFrames == 4
MaxWindow == 3

\* ------------------------------------------------------------------------
\* Program constants
\* ------------------------------------------------------------------------
INF == 1000000000
MAX_FLOOD_ROUNDS == 50

\* next_hop None of rip_sim.py (nodes are numbered from 1)
NoHop == 0

\* Link costs the topologies are drawn from: 1 (the default), 2 (ties with
\* a two-hop path of unit links) and a cost whose double exceeds INF.
BigCost == (INF \div 2) + 20000000
Costs == {1, 2, BigCost}

VARIABLES
    \* --- topology (the input graph G / the edges list) -------------------
    all_nodes,          \* list(G.nodes()): sequence of node identifiers
    edges,              \* edges in insertion order: <<u, v, cost>>
    neighbors,          \* node -> sequence of neighbours (adjacency order)
    weighted,           \* simulate_rip(weighted=...)
    max_rounds,         \* the round budget of the call
    \* --- control ----------------------------------------------------------
    pc,                 \* position of the running simulator
    cursor,             \* <<i, j>>: sender all_nodes[i], its j-th neighbour
    msg,                \* the advertisement handed to the last delivery
    snapshots,          \* deepcopy of every node's state at the start of the round
    \* --- rip_sim.py -------------------------------------------------------
    dv,                 \* Router.dv of every router: dest -> <<cost, next_hop>>
    round_no,
    any_update,
    updates_this_round,
    updates_per_round,
    \* --- ospf_sim.py / isis_sim.py ---------------------------------------
    lsdb,               \* router -> LSDB, a dict in insertion order:
                        \*   sequence of [link, cost, seq, origin]
    seq_counter,        \* router -> next value of its itertools.count
    initial_lsas,       \* router -> the LSAs it originated
    rounds,             \* (also the round counter of bgp_propagate)
    any_change,         \* (also the change flag of bgp_propagate)
    advs,
    advs_per_round,
    routing_tables,     \* router -> dest -> <<cost, next_hop>>
    \* --- bgp_sim.py ------------------------------------------------------
    local_rib,          \* asn -> prefix -> AS-path (<<>>: no entry)
    orig_prefixes,      \* asn -> set of originated prefixes
    withdrawals,        \* number of calls of simulate_withdrawal so far
    returned,           \* what the calls of bgp_propagate returned so far:
                        \*   sequence of <<rounds, any_change at the return>>
    withdrawn,          \* what the calls of simulate_withdrawal returned so far
    \* --- lab8/scheduler.py ----------------------------------------------
    packet_list,        \* the caller's list: [obj |-> identity, items |-> packets]
    fifo_result,        \* what fifo_scheduler returned (NoList: not called yet)
    priority_result,    \* what priority_scheduler returned
    next_obj,           \* identity of the next list object created
    \* --- lab8/router.py, lab8/ip_utils.py --------------------------------
    routes,             \* the list handed to Router(): [cidr, link], texts
    forwarding_table,   \* Router.forwarding_table: <<binary_prefix, prefix_length, output_link>>
    routed,             \* the last call of route_packet: [dest_ip, link]
    \* --- lab5/go_back_N.py (the locals of go_back_n; the prefix keeps them
    \*     apart from the bound names of this module) ------------------------
    gbn_tf,             \* tf: total number of frames
    gbn_n,              \* n: window size
    gbn_p,              \* p: loss probability, in percent
    gbn_b,              \* b: window base
    gbn_s,              \* s: next sequence number to send
    gbn_i,              \* i of the response loop: the frame examined next,
                        \*   or the frame that was lost
    acked_successfully,
    sent,               \* the frames printed as "Sending Frame" in this iteration
    acks                \* the frames printed as "ACK received" in this iteration

topoVars == <<all_nodes, edges, neighbors, weighted, max_rounds>>
ctlVars  == <<pc, cursor, msg, snapshots>>
ripVars  == <<dv, round_no, any_update, updates_this_round, updates_per_round>>
lsOnly   == <<lsdb, seq_counter, initial_lsas, advs, advs_per_round, routing_tables>>
lsVars   == <<lsOnly, rounds, any_change>>
bgpVars  == <<local_rib, orig_prefixes, withdrawals, returned, withdrawn>>
schedVars == <<packet_list, fifo_result, priority_result, next_obj>>
routerVars == <<routes, forwarding_table, routed>>
gbnVars  == <<gbn_tf, gbn_n, gbn_p, gbn_b, gbn_s, gbn_i, acked_successfully, sent, acks>>
vars     == <<topoVars, ctlVars, ripVars, lsVars, bgpVars, schedVars, routerVars, gbnVars>>

\* ------------------------------------------------------------------------
\* Topology
\* ------------------------------------------------------------------------
Range(s) == {s[k] : k \in DOMAIN s}

Min(S) == CHOOSE x \in S : \A y \in S : x <= y

NodePairs(n) == {p \in (1..n) \X (1..n) : p[1] < p[2]}

\* Every list of at most MaxEdges edges between n nodes, no edge twice, each
\* with a cost of cs: the graphs G.add_edge can build, in every insertion
\* order.
EdgeLists(n, cs) ==
    UNION {{es \in [1..k -> NodePairs(n) \X cs] :
               \A a, b \in 1..k : a # b => es[a][1] # es[b][1]} : k \in 0..MaxEdges}

EdgeTriples(es) == [k \in DOMAIN es |-> <<es[k][1][1], es[k][1][2], es[k][2]>>]

\* G.neighbors(n): the other endpoints of the edges at n, in insertion order
RECURSIVE NeighborList(_, _)
NeighborList(es, n) ==
    IF es = <<>> THEN <<>>
    ELSE LET e == Head(es)
             rest == NeighborList(Tail(es), n)
         IN  IF e[1] = n THEN <<e[2]>> \o rest
             ELSE IF e[2] = n THEN <<e[1]>> \o rest
             ELSE rest

\* graph[u][v].get("cost", 1)
EdgeCost(es, u, v) ==
    LET k == CHOOSE k \in DOMAIN es : {es[k][1], es[k][2]} = {u, v}
    IN  es[k][3]

Nodes == Range(all_nodes)

Adjacent(u, v) == \E k \in DOMAIN edges : {edges[k][1], edges[k][2]} = {u, v}

\* ------------------------------------------------------------------------
\* The delivery loop shared by the simulators:
\*   for name in routers: for nb in routers[name].neighbors: ...
\* cursor <<i, j>> names the next pair; <<Len(all_nodes) + 1, 1>> is the end.
\* ------------------------------------------------------------------------
RECURSIVE SkipEmpty(_)
SkipEmpty(i) ==
    IF i > Len(all_nodes) THEN <<Len(all_nodes) + 1, 1>>
    ELSE IF Len(neighbors[all_nodes[i]]) = 0 THEN SkipEmpty(i + 1)
    ELSE <<i, 1>>

FirstPair == SkipEmpty(1)

NextPair(c) ==
    IF c[2] < Len(neighbors[all_nodes[c[1]]]) THEN <<c[1], c[2] + 1>>
    ELSE SkipEmpty(c[1] + 1)

LoopEnded == cursor[1] > Len(all_nodes)
Sender    == all_nodes[cursor[1]]
Receiver  == neighbors[Sender][cursor[2]]

NoMsg == [from |-> NoHop, to |-> NoHop, body |-> <<>>]

\* ------------------------------------------------------------------------
\* rip_sim.py
\* ------------------------------------------------------------------------
\* cost of the link to a neighbour, in Router.initialize and process_update
LinkCost(u, v) == IF weighted THEN EdgeCost(edges, u, v) ELSE 1

\* Router.initialize
InitialDV(name, nodeSeq, nbs, w, es) ==
    [n \in Range(nodeSeq) |->
        IF n = name THEN <<0, name>>
        ELSE IF n \in Range(nbs[name])
             THEN <<(IF w THEN EdgeCost(es, name, n) ELSE 1), n>>
             ELSE <<INF, NoHop>>]

\* a variant of the candidate cost that leaves out the link to the neighbour
NewCostNoLink(cost_to_nb, nbr_cost) ==
    IF nbr_cost >= INF THEN INF ELSE nbr_cost

\* the candidate cost of process_update
NewCost(cost_to_nb, nbr_cost) ==
    IF nbr_cost >= INF THEN INF ELSE cost_to_nb + nbr_cost

\* a variant of the test that takes every finite candidate
BetterFinite(new_cost, cur_cost) == new_cost < INF

\* a variant of the test that also replaces an entry by an equal candidate
BetterOrEqual(new_cost, cur_cost) == new_cost <= cur_cost

\* a variant of the test that replaces an entry whenever the candidate differs
BetterOrDifferent(new_cost, cur_cost) == new_cost # cur_cost

\* the test that replaces an entry
Better(new_cost, cur_cost) == new_cost < cur_cost

\* process_update: the receiver's dv after the loop over neighbor_vector
ProcessUpdate(router_dv, neighbor_name, neighbor_vector, cost_to_nb) ==
    [dest \in DOMAIN router_dv |->
        IF dest \in DOMAIN neighbor_vector
           /\ Better(NewCost(cost_to_nb, neighbor_vector[dest][1]), router_dv[dest][1])
        THEN <<NewCost(cost_to_nb, neighbor_vector[dest][1]), neighbor_name>>
        ELSE router_dv[dest]]

\* a variant of the flag that reports only newly reachable destinations
UpdatedNewOnly(router_dv, neighbor_vector, cost_to_nb) ==
    \E dest \in DOMAIN neighbor_vector :
        /\ Better(NewCost(cost_to_nb, neighbor_vector[dest][1]), router_dv[dest][1])
        /\ router_dv[dest][1] >= INF

\* process_update: the returned flag `updated`
Updated(router_dv, neighbor_vector, cost_to_nb) ==
    \E dest \in DOMAIN neighbor_vector :
        Better(NewCost(cost_to_nb, neighbor_vector[dest][1]), router_dv[dest][1])

\* the simulators that are not running hold no state
IdleRip ==
    /\ dv = <<>>
    /\ round_no = 0
    /\ any_update = FALSE
    /\ updates_this_round = 0
    /\ updates_per_round = <<>>

IdleLs ==
    /\ lsdb = <<>>
    /\ seq_counter = <<>>
    /\ initial_lsas = <<>>
    /\ advs = 0
    /\ advs_per_round = <<>>
    /\ routing_tables = <<>>

IdleBgp ==
    /\ local_rib = <<>>
    /\ orig_prefixes = <<>>
    /\ withdrawals = 0
    /\ returned = <<>>
    /\ withdrawn = <<>>

\* no list object: the scheduler has not been called
NoList == [obj |-> 0, items |-> <<>>]

IdleSched ==
    /\ packet_list = NoList
    /\ fifo_result = NoList
    /\ priority_result = NoList
    /\ next_obj = 1

\* no call of route_packet yet
NotRouted == [dest_ip |-> <<>>, link |-> ""]

IdleRouter ==
    /\ routes = <<>>
    /\ forwarding_table = <<>>
    /\ routed = NotRouted

IdleGbn ==
    /\ gbn_tf = 0
    /\ gbn_n = 0
    /\ gbn_p = 0
    /\ gbn_b = 0
    /\ gbn_s = 0
    /\ gbn_i = 0
    /\ acked_successfully = FALSE
    /\ sent = <<>>
    /\ acks = <<>>

\* the vector handed to process_update: snapshots[name], with a variant
\* that reads the sender's live table
RipVectorLive(name) == dv[name]

RipVector(name) == snapshots[name]

\* simulate_rip up to the loop: routers built and initialised
InitRip ==
    \E n \in 1..MaxNodes, w \in BOOLEAN :
      \E es \in EdgeLists(n, IF w THEN Costs ELSE {1}), mr \in 1..n :
        LET nodeSeq == [k \in 1..n |-> k]
            nbs == [u \in 1..n |-> NeighborList(EdgeTriples(es), u)]
        IN  /\ all_nodes = nodeSeq
            /\ edges = EdgeTriples(es)
            /\ neighbors = nbs
            /\ weighted = w
            /\ max_rounds = mr
            /\ pc = "rip_loop"
            /\ cursor = <<1, 1>>
            /\ msg = NoMsg
            /\ dv = [u \in 1..n |-> InitialDV(u, nodeSeq, nbs, w, EdgeTriples(es))]
            /\ snapshots = [u \in 1..n |-> <<>>]
            /\ round_no = 0
            /\ any_update = FALSE
            /\ updates_this_round = 0
            /\ updates_per_round = <<>>
            /\ rounds = 0
            /\ any_change = FALSE
            /\ IdleLs
            /\ IdleBgp
            /\ IdleSched
            /\ IdleRouter
            /\ IdleGbn

\* for round_no in range(1, max_rounds+1): snapshot, reset the counters
RipBeginRound ==
    /\ pc = "rip_loop"
    /\ round_no < max_rounds
    /\ round_no' = round_no + 1
    /\ snapshots' = dv
    /\ any_update' = FALSE
    /\ updates_this_round' = 0
    /\ cursor' = FirstPair
    /\ pc' = "rip_send"
    /\ UNCHANGED <<gbnVars, routerVars, schedVars, topoVars, msg, dv, updates_per_round, lsVars, bgpVars>>

\* one pass of the inner loop: process_update(routers[nb], name, snapshots[name])
RipDeliver ==
    /\ pc = "rip_send"
    /\ ~LoopEnded
    /\ LET name == Sender
           nb == Receiver
           vec == RipVector(name)
           c == LinkCost(nb, name)
           changed == Updated(dv[nb], vec, c)
       IN  /\ msg' = [from |-> name, to |-> nb, body |-> vec]
           /\ dv' = [dv EXCEPT ![nb] = ProcessUpdate(dv[nb], name, vec, c)]
           /\ any_update' = (any_update \/ changed)
           /\ updates_this_round' = updates_this_round + (IF changed THEN 1 ELSE 0)
    /\ cursor' = NextPair(cursor)
    /\ UNCHANGED <<gbnVars, routerVars, schedVars, topoVars, pc, snapshots, round_no, updates_per_round, lsVars, bgpVars>>

\* end of the round: record the count, return on a round without update
RipEndRound ==
    /\ pc = "rip_send"
    /\ LoopEnded
    /\ updates_per_round' = Append(updates_per_round, updates_this_round)
    /\ pc' = IF any_update THEN "rip_loop" ELSE "rip_converged"
    /\ UNCHANGED <<gbnVars, routerVars, schedVars, topoVars, cursor, msg, dv, snapshots, round_no, any_update,
                   updates_this_round, lsVars, bgpVars>>

\* the for loop ran out: "Max rounds reached", return max_rounds
RipGiveUp ==
    /\ pc = "rip_loop"
    /\ round_no >= max_rounds
    /\ pc' = "rip_maxed"
    /\ UNCHANGED <<gbnVars, routerVars, schedVars, topoVars, cursor, msg, snapshots, ripVars, lsVars, bgpVars>>

\* the round count simulate_rip returns, with a variant that does not
\* count the final round
RipRoundsBeforeLast == IF pc = "rip_converged" THEN round_no - 1 ELSE max_rounds

RipReturnedRounds == IF pc = "rip_converged" THEN round_no ELSE max_rounds

NextRip == RipBeginRound \/ RipDeliver \/ RipEndRound \/ RipGiveUp

SpecRip == InitRip /\ [][NextRip]_vars

\* ------------------------------------------------------------------------
\* ospf_sim.py (isis_sim.py is the same code with LSP for LSA)
\* ------------------------------------------------------------------------
\* tuple(sorted((u, v)))
SortedLink(u, v) == IF u <= v THEN <<u, v>> ELSE <<v, u>>

\* position of a key in a dict kept as a sequence, 0 if absent
IndexOf(db, link) ==
    IF \E k \in DOMAIN db : db[k].link = link
    THEN CHOOSE k \in DOMAIN db : db[k].link = link
    ELSE 0

\* a variant that inserts at the end even when the key is present
DictSetAppend(db, rec) == Append(db, rec)

\* self.lsdb[key] = {...}: replace in place, or insert at the end
DictSet(db, rec) ==
    IF IndexOf(db, rec.link) = 0 THEN Append(db, rec)
    ELSE [db EXCEPT ![IndexOf(db, rec.link)] = rec]

\* a variant of the test that accepts only for a link-id not yet stored
AcceptsOnlyNew(db, lsa) == IndexOf(db, lsa.link) = 0

\* a variant of the test that also accepts an equal sequence number
AcceptsNotOlder(db, lsa) ==
    \/ IndexOf(db, lsa.link) = 0
    \/ lsa.seq >= db[IndexOf(db, lsa.link)].seq

\* the acceptance test of receive_lsa / receive_lsp
Accepts(db, lsa) ==
    \/ IndexOf(db, lsa.link) = 0
    \/ lsa.seq > db[IndexOf(db, lsa.link)].seq

\* receive_lsa: the LSDB afterwards
ReceiveLsa(db, lsa) ==
    IF Accepts(db, lsa)
    THEN DictSet(db, [link |-> lsa.link, cost |-> lsa.cost, seq |-> lsa.seq,
                      origin |-> lsa.origin])
    ELSE db

\* for link, info in snapshots[name].items(): routers[nb].receive_lsa(lsa)
\* returns <<the receiver's LSDB, the number of accepted LSAs>>
RECURSIVE ReceiveAll(_, _)
ReceiveAll(db, snap) ==
    IF snap = <<>> THEN <<db, 0>>
    ELSE LET lsa == Head(snap)
             rest == ReceiveAll(ReceiveLsa(db, lsa), Tail(snap))
         IN  <<rest[1], rest[2] + (IF Accepts(db, lsa) THEN 1 ELSE 0)>>

\* a variant that numbers the LSAs of every call from 1
CreatedLsasFromOne(name, first_seq) ==
    [k \in 1..Len(neighbors[name]) |->
        [link   |-> SortedLink(name, neighbors[name][k]),
         origin |-> name,
         seq    |-> k,
         cost   |-> EdgeCost(edges, name, neighbors[name][k])]]

\* originate_lsas: the LSAs created for the incident links, in adjacency
\* order, numbered from the router's counter
CreatedLsas(name, first_seq) ==
    [k \in 1..Len(neighbors[name]) |->
        [link   |-> SortedLink(name, neighbors[name][k]),
         origin |-> name,
         seq    |-> first_seq + k - 1,
         cost   |-> EdgeCost(edges, name, neighbors[name][k])]]

RECURSIVE StoreAll(_, _)
StoreAll(db, lsas) ==
    IF lsas = <<>> THEN db
    ELSE StoreAll(DictSet(db, [link |-> Head(lsas).link, cost |-> Head(lsas).cost,
                               seq |-> Head(lsas).seq, origin |-> Head(lsas).origin]),
                  Tail(lsas))

\* main: routers constructed with an empty LSDB and a counter at 1
InitLs ==
    \E n \in 1..MaxNodes :
      \E es \in EdgeLists(n, Costs) :
        LET nodeSeq == [k \in 1..n |-> k]
        IN  /\ all_nodes = nodeSeq
            /\ edges = EdgeTriples(es)
            /\ neighbors = [u \in 1..n |-> NeighborList(EdgeTriples(es), u)]
            /\ weighted = TRUE
            /\ max_rounds = MAX_FLOOD_ROUNDS
            /\ pc = "ls_originate"
            /\ cursor = <<1, 1>>
            /\ msg = NoMsg
            /\ snapshots = [u \in 1..n |-> <<>>]
            /\ lsdb = [u \in 1..n |-> <<>>]
            /\ seq_counter = [u \in 1..n |-> 1]
            /\ initial_lsas = [u \in 1..n |-> <<>>]
            /\ rounds = 0
            /\ any_change = FALSE
            /\ advs = 0
            /\ advs_per_round = <<>>
            /\ routing_tables = <<>>
            /\ IdleRip
            /\ IdleBgp
            /\ IdleSched
            /\ IdleRouter
            /\ IdleGbn

\* main: lsas = r.originate_lsas(G); initial_lsas[name] = lsas
LsOriginate ==
    /\ pc = "ls_originate"
    /\ cursor[1] <= Len(all_nodes)
    /\ LET name == all_nodes[cursor[1]]
           created == CreatedLsas(name, seq_counter[name])
       IN  /\ lsdb' = [lsdb EXCEPT ![name] = StoreAll(@, created)]
           /\ seq_counter' = [seq_counter EXCEPT ![name] = @ + Len(created)]
           /\ initial_lsas' = [initial_lsas EXCEPT ![name] = created]
    /\ cursor' = <<cursor[1] + 1, 1>>
    /\ UNCHANGED <<gbnVars, routerVars, schedVars, topoVars, pc, msg, snapshots, ripVars, bgpVars, rounds, any_change, advs,
                   advs_per_round, routing_tables>>

\* flood_lsas, before the loop: every router is given the LSAs it originated
LsPreload ==
    /\ pc = "ls_originate"
    /\ cursor[1] > Len(all_nodes)
    /\ lsdb' = [name \in DOMAIN lsdb |-> StoreAll(lsdb[name], initial_lsas[name])]
    /\ rounds' = 0
    /\ advs_per_round' = <<>>
    /\ pc' = "ls_loop"
    /\ UNCHANGED <<gbnVars, routerVars, schedVars, topoVars, cursor, msg, snapshots, ripVars, bgpVars, seq_counter, initial_lsas,
                   any_change, advs, routing_tables>>

\* while True: rounds += 1; snapshot every LSDB
LsBeginRound ==
    /\ pc = "ls_loop"
    /\ rounds' = rounds + 1
    /\ any_change' = FALSE
    /\ advs' = 0
    /\ snapshots' = lsdb
    /\ cursor' = FirstPair
    /\ pc' = "ls_send"
    /\ UNCHANGED <<gbnVars, routerVars, schedVars, topoVars, msg, ripVars, bgpVars, lsdb, seq_counter, initial_lsas,
                   advs_per_round, routing_tables>>

\* one neighbour processes every LSA of the sender's snapshot
LsDeliver ==
    /\ pc = "ls_send"
    /\ ~LoopEnded
    /\ LET name == Sender
           nb == Receiver
           got == ReceiveAll(lsdb[nb], snapshots[name])
       IN  /\ msg' = [from |-> name, to |-> nb, body |-> snapshots[name]]
           /\ lsdb' = [lsdb EXCEPT ![nb] = got[1]]
           /\ any_change' = (any_change \/ got[2] > 0)
           /\ advs' = advs + got[2]
    /\ cursor' = NextPair(cursor)
    /\ UNCHANGED <<gbnVars, routerVars, schedVars, topoVars, pc, snapshots, ripVars, bgpVars, seq_counter, initial_lsas, rounds,
                   advs_per_round, routing_tables>>

\* advs_per_round.append(advs); break on a round without change or at the cap
LsEndRound ==
    /\ pc = "ls_send"
    /\ LoopEnded
    /\ advs_per_round' = Append(advs_per_round, advs)
    /\ pc' = IF ~any_change \/ rounds >= MAX_FLOOD_ROUNDS THEN "ls_flooded" ELSE "ls_loop"
    /\ UNCHANGED <<gbnVars, routerVars, schedVars, topoVars, cursor, msg, snapshots, ripVars, bgpVars, lsdb, seq_counter,
                   initial_lsas, rounds, any_change, advs, routing_tables>>

\* float('inf') of the routing tables (isis_sim.py: INF)
Infinite == 0 - 1

\* a variant that adds the edges without their cost
GraphOfLsdbUnitCost(db) == [k \in DOMAIN db |-> <<db[k].link[1], db[k].link[2], 1>>]

\* build_graph_from_lsdb: one H.add_edge(u, v, cost=cost) per LSDB entry
GraphOfLsdb(db) == [k \in DOMAIN db |-> <<db[k].link[1], db[k].link[2], db[k].cost>>]

\* H.nodes(), with the router itself added
GraphNodes(H, name) == {H[k][1] : k \in DOMAIN H} \cup {H[k][2] : k \in DOMAIN H} \cup {name}

EmptyMap == [x \in {} |-> 0]

\* nx.single_source_dijkstra(H, source, weight='cost'): the loop over the
\* neighbours u of the node v just settled, in adjacency order
RECURSIVE DijkstraRelax(_, _, _, _)
DijkstraRelax(st, H, v, nbs) ==
    IF nbs = <<>> THEN st
    ELSE LET u == Head(nbs)
             vu_dist == st.dist[v] + EdgeCost(H, v, u)
             st2 == IF u \in DOMAIN st.dist
                    THEN (IF vu_dist < st.dist[u] THEN [st EXCEPT !.raised = TRUE] ELSE st)
                    ELSE IF u \notin DOMAIN st.seen \/ vu_dist < st.seen[u]
                    THEN [st EXCEPT !.seen = (u :> vu_dist) @@ @,
                                    !.fringe = @ \cup {<<vu_dist, st.c, u>>},
                                    !.c = @ + 1,
                                    !.paths = (u :> Append(st.paths[v], u)) @@ @]
                    ELSE st
         IN  DijkstraRelax(st2, H, v, Tail(nbs))

\* the main loop: pop the least (distance, push order) entry of the heap
RECURSIVE DijkstraLoop(_, _)
DijkstraLoop(st, H) ==
    IF st.fringe = {} \/ st.raised THEN st
    ELSE LET top == CHOOSE t \in st.fringe :
                        \A o \in st.fringe :
                            t[1] < o[1] \/ (t[1] = o[1] /\ t[2] <= o[2])
             popped == [st EXCEPT !.fringe = @ \ {top}]
             v == top[3]
         IN  IF v \in DOMAIN st.dist THEN DijkstraLoop(popped, H)
             ELSE DijkstraLoop(
                      DijkstraRelax([popped EXCEPT !.dist = (v :> top[1]) @@ @],
                                    H, v, NeighborList(H, v)), H)

Dijkstra(H, source) ==
    DijkstraLoop([dist |-> EmptyMap, seen |-> (source :> 0),
                  paths |-> (source :> <<source>>),
                  fringe |-> {<<0, 0, source>>}, c |-> 1, raised |-> FALSE], H)

\* a variant that takes the first node of the path
NextHopFirst(path) == IF Len(path) >= 2 THEN path[1] ELSE NoHop

\* next_hop = path[1] if len(path) >= 2 else None
NextHopOf(path) == IF Len(path) >= 2 THEN path[2] ELSE NoHop

\* compute_routing_tables, for one router
RoutingTable(name, db) ==
    LET H == GraphOfLsdb(db)
        run == Dijkstra(H, name)
        \* except Exception: lengths = {}; paths = {}
        lengths == IF run.raised THEN EmptyMap ELSE run.dist
        paths == IF run.raised THEN EmptyMap ELSE run.paths
    IN  [dest \in GraphNodes(H, name) |->
            IF dest = name THEN <<0, name>>
            ELSE IF dest \in DOMAIN paths
                 THEN <<lengths[dest], NextHopOf(paths[dest])>>
                 ELSE <<Infinite, NoHop>>]

\* main: routing_tables = compute_routing_tables(routers)
LsComputeTables ==
    /\ pc = "ls_flooded"
    /\ routing_tables' = [name \in DOMAIN lsdb |-> RoutingTable(name, lsdb[name])]
    /\ pc' = "ls_done"
    /\ UNCHANGED <<gbnVars, routerVars, schedVars, topoVars, cursor, msg, snapshots, ripVars, bgpVars, lsdb, seq_counter,
                   initial_lsas, rounds, any_change, advs, advs_per_round>>

\* a later call of r.originate_lsas(G), once the tables are computed; msg
\* holds the list returned
LsOriginateAgain ==
    /\ pc = "ls_done"
    /\ \E name \in Nodes :
          LET created == CreatedLsas(name, seq_counter[name])
          IN  /\ seq_counter[name] <= (MaxCalls - 1) * Len(neighbors[name]) + 1
              /\ lsdb' = [lsdb EXCEPT ![name] = StoreAll(@, created)]
              /\ seq_counter' = [seq_counter EXCEPT ![name] = @ + Len(created)]
              /\ msg' = [from |-> name, to |-> name, body |-> created]
    /\ UNCHANGED <<gbnVars, routerVars, schedVars, topoVars, pc, cursor, snapshots, ripVars, bgpVars,
                   initial_lsas, rounds, any_change, advs, advs_per_round, routing_tables>>

NextLs ==
    LsOriginate \/ LsPreload \/ LsBeginRound \/ LsDeliver \/ LsEndRound \/ LsComputeTables

SpecLs == InitLs /\ [][NextLs]_vars

SpecReoriginate == InitLs /\ [][NextLs \/ LsOriginateAgain]_vars

\* ------------------------------------------------------------------------
\* bgp_sim.py
\* ------------------------------------------------------------------------
\* AS numbers of the topologies; one of them has two digits, so that the
\* order of str(asn) differs from the order of the numbers
ASNs == {1, 2, 3, 10}

\* the model has one prefix
Prefixes == {"P"}

NoPath == <<>>

\* str(asn): the decimal digits
RECURSIVE Str(_)
Str(n) == IF n < 10 THEN <<n>> ELSE Append(Str(n \div 10), n % 10)

\* Python's < on two strings (sequences of digits)
RECURSIVE StrLess(_, _)
StrLess(a, b) ==
    IF b = <<>> THEN FALSE
    ELSE IF a = <<>> THEN TRUE
    ELSE IF Head(a) # Head(b) THEN Head(a) < Head(b)
    ELSE StrLess(Tail(a), Tail(b))

\* list(map(str, new)) < list(map(str, old))
RECURSIVE StrListLess(_, _)
StrListLess(new, old) ==
    IF old = <<>> THEN FALSE
    ELSE IF new = <<>> THEN TRUE
    ELSE IF Str(Head(new)) # Str(Head(old)) THEN StrLess(Str(Head(new)), Str(Head(old)))
    ELSE StrListLess(Tail(new), Tail(old))

\* a variant without the tie-break: of two paths of one length the one that
\* came first stays
BetterPathFirstCome(new, old) ==
    \/ old = NoPath
    \/ Len(new) < Len(old)

\* better(new, old) of receive_update; old = NoPath stands for None
BetterPath(new, old) ==
    \/ old = NoPath
    \/ Len(new) < Len(old)
    \/ Len(new) = Len(old) /\ StrListLess(new, old)

\* a variant without the loop-prevention test
AcceptsPathNoLoopCheck(asn, current, path) == BetterPath(path, current)

\* receive_update returns True (and installs the path)
AcceptsPath(asn, current, path) ==
    /\ asn \notin Range(path)
    /\ BetterPath(path, current)

\* a variant that installs every path it is handed
ReceiveUpdateInstall(asn, current, path) == path

\* receive_update: the receiver's entry for the prefix afterwards
ReceiveUpdate(asn, current, path) ==
    IF AcceptsPath(asn, current, path) THEN path ELSE current

\* advertised = [asn] + [p for p in path if p != asn]
RECURSIVE Without(_, _)
Without(path, asn) ==
    IF path = <<>> THEN <<>>
    ELSE IF Head(path) = asn THEN Without(Tail(path), asn)
    ELSE <<Head(path)>> \o Without(Tail(path), asn)

\* a variant that prepends the sender without removing it from the path
AdvertisedPrepend(asn, path) == <<asn>> \o path

Advertised(asn, path) == <<asn>> \o Without(path, asn)

PairLess(p, q) == p[1] < q[1] \/ (p[1] = q[1] /\ p[2] < q[2])

RECURSIVE SortPairs(_)
SortPairs(S) ==
    IF S = {} THEN <<>>
    ELSE LET m == CHOOSE p \in S : \A q \in S \ {p} : PairLess(p, q)
         IN  <<m>> \o SortPairs(S \ {m})

RECURSIVE SortNodes(_)
SortNodes(S) ==
    IF S = {} THEN <<>>
    ELSE <<Min(S)>> \o SortNodes(S \ {Min(S)})

Reverse(s) == [k \in 1..Len(s) |-> s[Len(s) + 1 - k]]

\* build_as_nodes(nodes_def, edges): every AS is in nodes_def; the peerings
\* are listed in ascending or in descending order
InitBgp ==
    \E E \in SUBSET {p \in ASNs \X ASNs : p[1] < p[2]}, descending \in BOOLEAN,
       O \in SUBSET ASNs, mr \in 1..Cardinality(ASNs) :
        LET es == [k \in 1..Cardinality(E) |-> <<SortPairs(E)[k][1], SortPairs(E)[k][2], 1>>]
            edgeList == IF descending THEN Reverse(es) ELSE es
        IN  /\ all_nodes = (IF descending THEN Reverse(SortNodes(ASNs)) ELSE SortNodes(ASNs))
            /\ edges = edgeList
            /\ neighbors = [a \in ASNs |-> NeighborList(edgeList, a)]
            /\ weighted = FALSE
            /\ max_rounds = mr
            /\ pc = "bgp_idle"
            /\ cursor = <<1, 1>>
            /\ msg = NoMsg
            /\ snapshots = [a \in ASNs |-> <<>>]
            /\ orig_prefixes = [a \in ASNs |-> IF a \in O THEN Prefixes ELSE {}]
            \* ASNode.__init__: self.local_rib[p] = [asn]
            /\ local_rib = [a \in ASNs |-> [p \in Prefixes |-> IF a \in O THEN <<a>> ELSE NoPath]]
            /\ withdrawals = 0
            /\ withdrawn = <<>>
            /\ returned = <<>>
            /\ rounds = 0
            /\ any_change = FALSE
            /\ IdleRip
            /\ IdleLs
            /\ IdleSched
            /\ IdleRouter
            /\ IdleGbn

\* rounds = 0 at the entry of bgp_propagate
BgpCall ==
    /\ pc \in {"bgp_idle", "bgp_returned"}
    /\ Len(returned) < MaxCalls
    /\ rounds' = 0
    /\ pc' = "bgp_loop"
    /\ UNCHANGED <<gbnVars, routerVars, schedVars, topoVars, cursor, msg, snapshots, any_change, ripVars, lsOnly, bgpVars>>

\* for r in range(1, max_rounds+1): rounds += 1; snapshot every local_rib
BgpBeginRound ==
    /\ pc = "bgp_loop"
    /\ rounds < max_rounds
    /\ rounds' = rounds + 1
    /\ snapshots' = local_rib
    /\ any_change' = FALSE
    /\ cursor' = FirstPair
    /\ pc' = "bgp_send"
    /\ UNCHANGED <<gbnVars, routerVars, schedVars, topoVars, msg, ripVars, lsOnly, bgpVars>>

\* a variant of the delivery whose change flag is the result of the last
\* delivery alone (any_change = changed)
BgpDeliverLastFlag ==
    /\ pc = "bgp_send"
    /\ ~LoopEnded
    /\ \E prefix \in Prefixes :
        /\ snapshots[Sender][prefix] # NoPath
        /\ LET asn == Sender
               nb == Receiver
               advertised == Advertised(asn, snapshots[asn][prefix])
               changed == AcceptsPath(nb, local_rib[nb][prefix], advertised)
           IN  /\ msg' = [from |-> asn, to |-> nb, body |-> advertised]
               /\ local_rib' = [local_rib EXCEPT ![nb][prefix] =
                                   ReceiveUpdate(nb, @, advertised)]
               /\ any_change' = changed
    /\ cursor' = NextPair(cursor)
    /\ UNCHANGED <<gbnVars, routerVars, schedVars, topoVars, pc, snapshots, rounds, ripVars, lsOnly, orig_prefixes,
                   withdrawals, withdrawn, returned>>

\* as_nodes[nb].receive_update(asn, prefix, advertised), for the prefix of the
\* sender's snapshot
BgpDeliver ==
    /\ pc = "bgp_send"
    /\ ~LoopEnded
    /\ \E prefix \in Prefixes :
        /\ snapshots[Sender][prefix] # NoPath
        /\ LET asn == Sender
               nb == Receiver
               advertised == Advertised(asn, snapshots[asn][prefix])
               changed == AcceptsPath(nb, local_rib[nb][prefix], advertised)
           IN  /\ msg' = [from |-> asn, to |-> nb, body |-> advertised]
               /\ local_rib' = [local_rib EXCEPT ![nb][prefix] =
                                   ReceiveUpdate(nb, @, advertised)]
               /\ any_change' = (any_change \/ changed)
    /\ cursor' = NextPair(cursor)
    /\ UNCHANGED <<gbnVars, routerVars, schedVars, topoVars, pc, snapshots, rounds, ripVars, lsOnly, orig_prefixes,
                   withdrawals, withdrawn, returned>>

\* a sender whose snapshot has no prefix advertises nothing
BgpNothingToSend ==
    /\ pc = "bgp_send"
    /\ ~LoopEnded
    /\ \A prefix \in Prefixes : snapshots[Sender][prefix] = NoPath
    /\ cursor' = SkipEmpty(cursor[1] + 1)
    /\ UNCHANGED <<gbnVars, routerVars, schedVars, topoVars, pc, msg, snapshots, rounds, any_change, ripVars, lsOnly, bgpVars>>

\* if not any_change: break
BgpEndRound ==
    /\ pc = "bgp_send"
    /\ LoopEnded
    /\ IF any_change
       THEN pc' = "bgp_loop" /\ UNCHANGED returned
       ELSE pc' = "bgp_returned" /\ returned' = Append(returned, <<rounds, any_change>>)
    /\ UNCHANGED <<gbnVars, routerVars, schedVars, topoVars, cursor, msg, snapshots, rounds, any_change, ripVars, lsOnly,
                   local_rib, orig_prefixes, withdrawals, withdrawn>>

\* the for loop ran out: return rounds
BgpGiveUp ==
    /\ pc = "bgp_loop"
    /\ rounds >= max_rounds
    /\ pc' = "bgp_returned"
    /\ returned' = Append(returned, <<rounds, any_change>>)
    /\ UNCHANGED <<gbnVars, routerVars, schedVars, topoVars, cursor, msg, snapshots, rounds, any_change, ripVars, lsOnly,
                   local_rib, orig_prefixes, withdrawals, withdrawn>>

\* a variant that empties the RIB of the withdrawing AS
WithdrawalWholeRib(ribs, withdrawing_asn, prefix) ==
    IF withdrawing_asn \notin DOMAIN ribs THEN <<ribs, FALSE>>
    ELSE IF ribs[withdrawing_asn][prefix] # NoPath
    THEN <<[ribs EXCEPT ![withdrawing_asn] = [p \in DOMAIN @ |-> NoPath]], TRUE>>
    ELSE <<ribs, FALSE>>

\* simulate_withdrawal: <<the RIBs afterwards, the value returned>>
Withdrawal(ribs, withdrawing_asn, prefix) ==
    IF withdrawing_asn \notin DOMAIN ribs THEN <<ribs, FALSE>>
    ELSE IF ribs[withdrawing_asn][prefix] # NoPath
    THEN <<[ribs EXCEPT ![withdrawing_asn][prefix] = NoPath], TRUE>>
    ELSE <<ribs, FALSE>>

\* simulate_withdrawal(as_nodes, withdrawing_asn, prefix), called after
\* bgp_propagate returned; the caller may then call bgp_propagate again
SimulateWithdrawal ==
    /\ pc = "bgp_returned"
    /\ pc' = "bgp_idle"
    /\ withdrawals < MaxWithdrawals
    /\ \E withdrawing_asn \in ASNs, prefix \in Prefixes :
        /\ local_rib' = Withdrawal(local_rib, withdrawing_asn, prefix)[1]
        /\ withdrawn' = Append(withdrawn, Withdrawal(local_rib, withdrawing_asn, prefix)[2])
        /\ withdrawals' = withdrawals + 1
    /\ UNCHANGED <<gbnVars, routerVars, schedVars, topoVars, cursor, msg, snapshots, rounds, any_change, ripVars, lsOnly,
                   orig_prefixes, returned>>

NextBgp ==
    \/ BgpCall \/ BgpBeginRound \/ BgpDeliver \/ BgpNothingToSend \/ BgpEndRound
    \/ BgpGiveUp \/ SimulateWithdrawal

SpecBgp == InitBgp /\ [][NextBgp]_vars

\* the injective sequences over a set: the orders a dict or a list of the
\* caller may have
Orders(S) == {q \in [1..Cardinality(S) -> S] : \A i, j \in 1..Cardinality(S) : i # j => q[i] # q[j]}

\* build_as_nodes(nodes_def, edges) with nodes_def and edges in any order:
\* as_nodes iterates in the order of nodes_def, node.neighbors in the order
\* of edges
InitBgpAnyOrder ==
    \E E \in {F \in SUBSET {p \in ASNs \X ASNs : p[1] < p[2]} : Cardinality(F) <= MaxEdges},
       O \in SUBSET ASNs, mr \in {1, Cardinality(ASNs)} :
      \E nodeOrder \in Orders(ASNs), edgeOrder \in Orders(E) :
        LET edgeList == [k \in 1..Cardinality(E) |-> <<edgeOrder[k][1], edgeOrder[k][2], 1>>]
        IN  /\ all_nodes = nodeOrder
            /\ edges = edgeList
            /\ neighbors = [a \in ASNs |-> NeighborList(edgeList, a)]
            /\ weighted = FALSE
            /\ max_rounds = mr
            /\ pc = "bgp_idle"
            /\ cursor = <<1, 1>>
            /\ msg = NoMsg
            /\ snapshots = [a \in ASNs |-> <<>>]
            /\ orig_prefixes = [a \in ASNs |-> IF a \in O THEN Prefixes ELSE {}]
            /\ local_rib = [a \in ASNs |-> [p \in Prefixes |-> IF a \in O THEN <<a>> ELSE NoPath]]
            /\ withdrawals = 0
            /\ withdrawn = <<>>
            /\ returned = <<>>
            /\ rounds = 0
            /\ any_change = FALSE
            /\ IdleRip
            /\ IdleLs
            /\ IdleSched
            /\ IdleRouter
            /\ IdleGbn

\* one call of bgp_propagate
BgpCallOnce == BgpCall /\ returned = <<>>

NextBgpAnyOrder ==
    \/ BgpCallOnce \/ BgpBeginRound \/ BgpDeliver \/ BgpNothingToSend \/ BgpEndRound
    \/ BgpGiveUp

SpecBgpAnyOrder == InitBgpAnyOrder /\ [][NextBgpAnyOrder]_vars

\* ------------------------------------------------------------------------
\* lab8/scheduler.py
\* ------------------------------------------------------------------------
\* Packet.priority: 0 = High, 1 = Medium, 2 = Low
Priorities == 0..2

\* the arrival lists: packet k of a list is the k-th to arrive and carries
\* payload k
ArrivalLists ==
    UNION {{[k \in 1..n |-> [payload |-> k, priority |-> pr[k]]] :
               pr \in [1..n -> Priorities]} : n \in 0..MaxPackets}

\* packet_list.copy(): a new list object with the same items
fifo_scheduler(list, fresh) ==
    [obj |-> fresh, items |-> [k \in 1..Len(list.items) |-> list.items[k]]]

\* a variant of the insertion that places a packet before those of equal
\* priority
InsertBeforeEqual(acc, x) ==
    LET k == Cardinality({i \in DOMAIN acc : acc[i].priority < x.priority})
    IN  SubSeq(acc, 1, k) \o <<x>> \o SubSeq(acc, k + 1, Len(acc))

\* sorted(): the place of the next packet among those already ordered is
\* after every packet whose key is not greater (binary insertion, stable)
InsertAfterEqual(acc, x) ==
    LET k == Cardinality({i \in DOMAIN acc : acc[i].priority <= x.priority})
    IN  SubSeq(acc, 1, k) \o <<x>> \o SubSeq(acc, k + 1, Len(acc))

RECURSIVE SortInto(_, _)
SortInto(acc, rest) ==
    IF rest = <<>> THEN acc
    ELSE SortInto(InsertAfterEqual(acc, Head(rest)), Tail(rest))

\* sorted(packet_list, key=lambda packet: packet.priority): a new list
priority_scheduler(list, fresh) ==
    [obj |-> fresh, items |-> SortInto(<<>>, list.items)]

\* the __main__ block: arrival_list is built, then the schedulers are called
InitSched ==
    \E items \in ArrivalLists :
        /\ packet_list = [obj |-> 1, items |-> items]
        /\ fifo_result = NoList
        /\ priority_result = NoList
        /\ next_obj = 2
        /\ pc = "sched"
        /\ all_nodes = <<>>
        /\ edges = <<>>
        /\ neighbors = <<>>
        /\ weighted = FALSE
        /\ max_rounds = 0
        /\ cursor = <<1, 1>>
        /\ msg = NoMsg
        /\ snapshots = <<>>
        /\ rounds = 0
        /\ any_change = FALSE
        /\ IdleRip
        /\ IdleLs
        /\ IdleBgp
        /\ IdleRouter
        /\ IdleGbn

\* fifo_result = fifo_scheduler(arrival_list)
CallFifo ==
    /\ pc = "sched"
    /\ fifo_result = NoList
    /\ fifo_result' = fifo_scheduler(packet_list, next_obj)
    /\ next_obj' = next_obj + 1
    /\ UNCHANGED <<gbnVars, routerVars, packet_list, priority_result, topoVars, ctlVars, ripVars, lsVars, bgpVars>>

\* priority_result = priority_scheduler(arrival_list)
CallPriority ==
    /\ pc = "sched"
    /\ priority_result = NoList
    /\ priority_result' = priority_scheduler(packet_list, next_obj)
    /\ next_obj' = next_obj + 1
    /\ UNCHANGED <<gbnVars, routerVars, packet_list, fifo_result, topoVars, ctlVars, ripVars, lsVars, bgpVars>>

NextSched == CallFifo \/ CallPriority

SpecSched == InitSched /\ [][NextSched]_vars

\* ------------------------------------------------------------------------
\* lab8/ip_utils.py and lab8/router.py
\* A text is a sequence of one-character strings.
\* ------------------------------------------------------------------------
\* the addresses of the routes, as texts, with the octets they denote
RouteAddresses ==
    {[text |-> <<"2", "2", "3", ".", "1", ".", "1", ".", "0">>, octets |-> <<223, 1, 1, 0>>],
     [text |-> <<"2", "2", "3", ".", "1", ".", "2", ".", "0">>, octets |-> <<223, 1, 2, 0>>],
     [text |-> <<"2", "2", "3", ".", "1", ".", "0", ".", "0">>, octets |-> <<223, 1, 0, 0>>]}

\* the destinations handed to route_packet
Destinations ==
    {[text |-> <<"2", "2", "3", ".", "1", ".", "1", ".", "1", "0", "0">>, octets |-> <<223, 1, 1, 100>>],
     [text |-> <<"2", "2", "3", ".", "1", ".", "2", ".", "5">>, octets |-> <<223, 1, 2, 5>>],
     [text |-> <<"2", "2", "3", ".", "1", ".", "2", "5", "0", ".", "1">>, octets |-> <<223, 1, 250, 1>>],
     [text |-> <<"1", "9", "8", ".", "5", "1", ".", "1", "0", "0", ".", "1">>, octets |-> <<198, 51, 100, 1>>]}

\* what follows the address in a route: a prefix length, a length out of
\* range, a length that is no number, nothing; len is the prefix length the
\* text denotes, -1 if it denotes none
Suffixes ==
    {[text |-> <<"/", "0">>, len |-> 0],
     [text |-> <<"/", "1", "6">>, len |-> 16],
     [text |-> <<"/", "2", "3">>, len |-> 23],
     [text |-> <<"/", "2", "4">>, len |-> 24],
     [text |-> <<"/", "3", "3">>, len |-> 0 - 1],
     [text |-> <<"/", "x">>, len |-> 0 - 1],
     [text |-> <<>>, len |-> 0 - 1]}

\* the CIDR texts of the routes, with what they denote
Cidrs ==
    {[text |-> a.text \o x.text, octets |-> a.octets, len |-> x.len] :
        a \in RouteAddresses, x \in Suffixes}

OutputLinks == {"Link 0", "Link 1"}

\* every list of at most MaxRoutes routes
RouteLists ==
    UNION {[1..n -> [cidr : {c.text : c \in Cidrs}, link : OutputLinks]] : n \in 0..MaxRoutes}

DigitValue ==
    [c \in {"0", "1", "2", "3", "4", "5", "6", "7", "8", "9"} |->
        CASE c = "0" -> 0 [] c = "1" -> 1 [] c = "2" -> 2 [] c = "3" -> 3 [] c = "4" -> 4
          [] c = "5" -> 5 [] c = "6" -> 6 [] c = "7" -> 7 [] c = "8" -> 8 [] c = "9" -> 9]

\* int(text) succeeds: a non-empty run of decimal digits
IsInt(text) == text # <<>> /\ \A k \in DOMAIN text : text[k] \in DOMAIN DigitValue

\* int(text)
RECURSIVE int(_)
int(text) ==
    IF text = <<>> THEN 0
    ELSE 10 * int(SubSeq(text, 1, Len(text) - 1)) + DigitValue[text[Len(text)]]

\* text.split(sep): the pieces between the separators
RECURSIVE Split(_, _)
Split(text, sep) ==
    IF \A k \in DOMAIN text : text[k] # sep THEN <<text>>
    ELSE LET k == CHOOSE k \in DOMAIN text :
                      text[k] = sep /\ \A j \in 1..(k - 1) : text[j] # sep
         IN  <<SubSeq(text, 1, k - 1)>> \o Split(SubSeq(text, k + 1, Len(text)), sep)

\* bin(n)[2:]
RECURSIVE Bin(_)
Bin(n) ==
    IF n < 2 THEN <<IF n = 0 THEN "0" ELSE "1">>
    ELSE Append(Bin(n \div 2), IF n % 2 = 0 THEN "0" ELSE "1")

\* text.zfill(width)
RECURSIVE Zfill(_, _)
Zfill(text, width) == IF Len(text) >= width THEN text ELSE Zfill(<<"0">> \o text, width)

\* "".join(texts)
RECURSIVE Join(_)
Join(texts) == IF texts = <<>> THEN <<>> ELSE Head(texts) \o Join(Tail(texts))

ip_to_binary(ip_address) ==
    LET octets == Split(ip_address, ".")
    IN  Join([k \in DOMAIN octets |-> Zfill(Bin(int(octets[k])), 8)])

\* the texts get_network_prefix returns instead of a prefix
InvalidCidrFormat == <<"I", "n", "v", "a", "l", "i", "d", " ", "C", "I", "D", "R", " ", "f", "o", "r", "m", "a", "t", ".", " ", "M", "u", "s", "t", " ", "b", "e", " ", "'", "i", "p", "/", "p", "r", "e", "f", "i", "x", "'", ".">>

InvalidPrefixLength == <<"I", "n", "v", "a", "l", "i", "d", " ", "p", "r", "e", "f", "i", "x", " ", "l", "e", "n", "g", "t", "h", ".">>

PrefixLengthOutOfRange == <<"P", "r", "e", "f", "i", "x", " ", "l", "e", "n", "g", "t", "h", " ", "m", "u", "s", "t", " ", "b", "e", " ", "b", "e", "t", "w", "e", "e", "n", " ", "0", " ", "a", "n", "d", " ", "3", "2", ".">>

get_network_prefix(ip_cidr) ==
    LET parts == Split(ip_cidr, "/")
    IN  IF Len(parts) # 2 THEN InvalidCidrFormat
        ELSE IF ~IsInt(parts[2]) THEN InvalidPrefixLength
        ELSE IF ~(0 <= int(parts[2]) /\ int(parts[2]) <= 32) THEN PrefixLengthOutOfRange
        ELSE SubSeq(ip_to_binary(parts[1]), 1, int(parts[2]))

\* a variant of the insertion that places an entry before those of equal
\* length
InsertBeforeSameLength(acc, item) ==
    LET k == Cardinality({i \in DOMAIN acc : acc[i][2] > item[2]})
    IN  SubSeq(acc, 1, k) \o <<item>> \o SubSeq(acc, k + 1, Len(acc))

\* sorted(key=item[1], reverse=True): the place of the next entry among
\* those already ordered is after every entry that is not shorter (stable)
InsertByLength(acc, item) ==
    LET k == Cardinality({i \in DOMAIN acc : acc[i][2] >= item[2]})
    IN  SubSeq(acc, 1, k) \o <<item>> \o SubSeq(acc, k + 1, Len(acc))

RECURSIVE SortByLength(_, _)
SortByLength(acc, rest) ==
    IF rest = <<>> THEN acc
    ELSE SortByLength(InsertByLength(acc, Head(rest)), Tail(rest))

\* Router._build_forwarding_table
BuildForwardingTable(rs) ==
    LET temp_table == [k \in DOMAIN rs |->
                          <<get_network_prefix(rs[k].cidr),
                            Len(get_network_prefix(rs[k].cidr)), rs[k].link>>]
    IN  SortByLength(<<>>, temp_table)

\* text.startswith(prefix)
StartsWith(text, prefix) ==
    Len(prefix) <= Len(text) /\ SubSeq(text, 1, Len(prefix)) = prefix

\* Router.route_packet, on the rest of the table
RECURSIVE RoutePacketFrom(_, _)
RoutePacketFrom(table, binary_dest_ip) ==
    IF table = <<>> THEN "Default Gateway"
    ELSE IF StartsWith(binary_dest_ip, Head(table)[1]) THEN Head(table)[3]
    ELSE RoutePacketFrom(Tail(table), binary_dest_ip)

route_packet(table, dest_ip) == RoutePacketFrom(table, ip_to_binary(dest_ip))

\* the __main__ block of router.py: routes_list is defined
InitRouter ==
    \E rs \in RouteLists :
        /\ routes = rs
        /\ forwarding_table = <<>>
        /\ routed = NotRouted
        /\ pc = "router_new"
        /\ all_nodes = <<>>
        /\ edges = <<>>
        /\ neighbors = <<>>
        /\ weighted = FALSE
        /\ max_rounds = 0
        /\ cursor = <<1, 1>>
        /\ msg = NoMsg
        /\ snapshots = <<>>
        /\ rounds = 0
        /\ any_change = FALSE
        /\ IdleRip
        /\ IdleLs
        /\ IdleBgp
        /\ IdleSched
        /\ IdleGbn

\* my_router = Router(routes_list)
NewRouter ==
    /\ pc = "router_new"
    /\ forwarding_table' = BuildForwardingTable(routes)
    /\ pc' = "router_ready"
    /\ UNCHANGED <<gbnVars, routes, routed, topoVars, cursor, msg, snapshots, ripVars, lsVars,
                   bgpVars, schedVars>>

\* link = my_router.route_packet(ip)
RoutePacket ==
    /\ pc = "router_ready"
    /\ \E d \in Destinations :
          routed' = [dest_ip |-> d.text, link |-> route_packet(forwarding_table, d.text)]
    /\ UNCHANGED <<gbnVars, routes, forwarding_table, topoVars, ctlVars, ripVars, lsVars,
                   bgpVars, schedVars>>

NextRouter == NewRouter \/ RoutePacket

SpecRouter == InitRouter /\ [][NextRouter]_vars

\* ------------------------------------------------------------------------
\* lab5/go_back_N.py
\* ------------------------------------------------------------------------
\* the values of p tried, in percent: random.random() < p is never true for
\* 0, always true for 100, and either for 50
LossRates == {0, 50, 100}

LossPossible(p) == p > 0

AckPossible(p) == p < 100

\* a variant of the window's end that is not capped at tf
WindowEndNoCap(b, n, tf) == b + n

\* min(b + n, tf), the stop of frames_to_send
WindowEnd(b, n, tf) == IF b + n <= tf THEN b + n ELSE tf

\* a variant of the timeout that leaves s where it is
AfterLossKeep(b, s) == s

\* s = b
AfterLoss(b, s) == b

\* a variant of the slide that leaves the base where it is
NewBaseStay(b, s) == b

\* b = s
NewBase(b, s) == s

\* go_back_n(tf, n, p) entered: b = 0, s = 0
InitGbn ==
    \E tf \in 0..MaxFrames, n \in 0..MaxWindow, p \in LossRates :
        /\ gbn_tf = tf
        /\ gbn_n = n
        /\ gbn_p = p
        /\ gbn_b = 0
        /\ gbn_s = 0
        /\ gbn_i = 0
        /\ acked_successfully = FALSE
        /\ sent = <<>>
        /\ acks = <<>>
        /\ pc = "gbn_while"
        /\ all_nodes = <<>>
        /\ edges = <<>>
        /\ neighbors = <<>>
        /\ weighted = FALSE
        /\ max_rounds = 0
        /\ cursor = <<1, 1>>
        /\ msg = NoMsg
        /\ snapshots = <<>>
        /\ rounds = 0
        /\ any_change = FALSE
        /\ IdleRip
        /\ IdleLs
        /\ IdleBgp
        /\ IdleSched
        /\ IdleRouter

\* while b < tf: the test held; frames_to_send = range(s, min(b + n, tf))
GbnIterate ==
    /\ pc = "gbn_while"
    /\ gbn_b < gbn_tf
    /\ sent' = <<>>
    /\ pc' = "gbn_send"
    /\ UNCHANGED <<topoVars, cursor, msg, snapshots, ripVars, lsVars, bgpVars, schedVars,
                   routerVars, gbn_tf, gbn_n, gbn_p, gbn_b, gbn_s, gbn_i, acked_successfully, acks>>

\* for i in frames_to_send: "Sending Frame i"; s += 1
GbnSend ==
    /\ pc = "gbn_send"
    /\ gbn_s < WindowEnd(gbn_b, gbn_n, gbn_tf)
    /\ sent' = Append(sent, gbn_s)
    /\ gbn_s' = gbn_s + 1
    /\ UNCHANGED <<topoVars, ctlVars, ripVars, lsVars, bgpVars, schedVars, routerVars,
                   gbn_tf, gbn_n, gbn_p, gbn_b, gbn_i, acked_successfully, acks>>

\* frames_to_send is used up: acked_successfully = True; for i in range(b, s)
GbnSent ==
    /\ pc = "gbn_send"
    /\ gbn_s >= WindowEnd(gbn_b, gbn_n, gbn_tf)
    /\ acked_successfully' = TRUE
    /\ gbn_i' = gbn_b
    /\ acks' = <<>>
    /\ pc' = "gbn_ack"
    /\ UNCHANGED <<topoVars, cursor, msg, snapshots, ripVars, lsVars, bgpVars, schedVars,
                   routerVars, gbn_tf, gbn_n, gbn_p, gbn_b, gbn_s, sent>>

\* random.random() < p is false: "ACK i + 1 received"
GbnAck ==
    /\ pc = "gbn_ack"
    /\ gbn_i < gbn_s
    /\ AckPossible(gbn_p)
    /\ acks' = Append(acks, gbn_i)
    /\ gbn_i' = gbn_i + 1
    /\ UNCHANGED <<topoVars, ctlVars, ripVars, lsVars, bgpVars, schedVars, routerVars,
                   gbn_tf, gbn_n, gbn_p, gbn_b, gbn_s, acked_successfully, sent>>

\* random.random() < p is true: s = b; acked_successfully = False; break
GbnLoss ==
    /\ pc = "gbn_ack"
    /\ gbn_i < gbn_s
    /\ LossPossible(gbn_p)
    /\ gbn_s' = AfterLoss(gbn_b, gbn_s)
    /\ acked_successfully' = FALSE
    /\ pc' = "gbn_while"
    /\ UNCHANGED <<topoVars, cursor, msg, snapshots, ripVars, lsVars, bgpVars, schedVars,
                   routerVars, gbn_tf, gbn_n, gbn_p, gbn_b, gbn_i, sent, acks>>

\* range(b, s) is used up: if acked_successfully: b = s
GbnSlide ==
    /\ pc = "gbn_ack"
    /\ gbn_i >= gbn_s
    /\ gbn_b' = (IF acked_successfully THEN NewBase(gbn_b, gbn_s) ELSE gbn_b)
    /\ pc' = "gbn_while"
    /\ UNCHANGED <<topoVars, cursor, msg, snapshots, ripVars, lsVars, bgpVars, schedVars,
                   routerVars, gbn_tf, gbn_n, gbn_p, gbn_s, gbn_i, acked_successfully, sent, acks>>

\* while b < tf: the test failed; "All frames transmitted successfully."
GbnReturn ==
    /\ pc = "gbn_while"
    /\ ~(gbn_b < gbn_tf)
    /\ pc' = "gbn_done"
    /\ UNCHANGED <<topoVars, cursor, msg, snapshots, ripVars, lsVars, bgpVars, schedVars,
                   routerVars, gbnVars>>

NextGbn ==
    \/ GbnIterate \/ GbnSend \/ GbnSent \/ GbnAck \/ GbnLoss \/ GbnSlide \/ GbnReturn

SpecGbn == InitGbn /\ [][NextGbn]_vars

\* the ACK of frame k
GbnAckOf(k) == GbnAck /\ gbn_i = k

\* go_back_n keeps running, and the draws of random.random() are
\* independent: a frame whose ACK is possible again and again is not lost
\* every time
GbnFairness ==
    /\ WF_vars(NextGbn)
    /\ \A k \in 0..(MaxFrames - 1) : SF_vars(GbnAckOf(k))

SpecGbnFair == SpecGbn /\ GbnFairness

\* ------------------------------------------------------------------------
\* Ground truth: shortest-path cost in the topology
\* ------------------------------------------------------------------------
\* least cost of a walk of at most k links from s to d, Infinite if none
RECURSIVE WalkCost(_, _, _, _)
WalkCost(cost(_, _), s, d, k) ==
    IF s = d THEN 0
    ELSE IF k = 0 THEN Infinite
    ELSE LET via == {v \in Nodes : Adjacent(s, v) /\ WalkCost(cost, v, d, k - 1) # Infinite}
         IN  IF via = {} THEN Infinite
             ELSE Min({cost(s, v) + WalkCost(cost, v, d, k - 1) : v \in via})

Shortest(cost(_, _), s, d) == WalkCost(cost, s, d, Cardinality(Nodes) - 1)

HopCost(u, v) == 1

EdgeCostOf(u, v) == EdgeCost(edges, u, v)

Connected == \A s, d \in Nodes : Shortest(HopCost, s, d) # Infinite

Last(q) == q[Len(q)]

RipReturned == pc \in {"rip_converged", "rip_maxed"}

LsFlooded == pc \in {"ls_flooded", "ls_done"}

BgpConverged == pc = "bgp_returned" /\ returned # <<>> /\ ~Last(returned)[2]

Originators == {a \in Nodes : "P" \in orig_prefixes[a]}

\* ------------------------------------------------------------------------
\* Distance-vector convergence
\* ------------------------------------------------------------------------
\* C1: on a connected graph with positive link costs, a budget of at least
\* n rounds ends in a round without update, and every stored cost is then
\* the true shortest-path cost (hop count when unweighted).
RipConvergesToShortest ==
    (RipReturned /\ Connected /\ max_rounds >= Len(all_nodes))
        => /\ pc = "rip_converged"
           /\ \A u, d \in Nodes : dv[u][d][1] = Shortest(LinkCost, u, d)

\* the same, for the graphs whose shortest-path costs all stay below INF
RipConvergesBelowInf ==
    (/\ RipReturned /\ Connected /\ max_rounds >= Len(all_nodes)
     /\ \A u, d \in Nodes : Shortest(LinkCost, u, d) < INF)
        => /\ pc = "rip_converged"
           /\ \A u, d \in Nodes : dv[u][d][1] = Shortest(LinkCost, u, d)

\* ------------------------------------------------------------------------
\* Link-state
\* ------------------------------------------------------------------------
\* C2: on a connected topology, after a round without change, every router
\* stores the same set of (link-id, cost, sequence, origin) records.
LsdbsIdentical ==
    (LsFlooded /\ ~any_change /\ Connected)
        => \A a, b \in Nodes : Range(lsdb[a]) = Range(lsdb[b])

\* what does hold: the routers agree on link-id, cost and sequence number
LsdbsAgreeUpToOrigin ==
    (LsFlooded /\ ~any_change /\ Connected)
        => \A a, b \in Nodes :
              {<<r.link, r.cost, r.seq>> : r \in Range(lsdb[a])}
                  = {<<r.link, r.cost, r.seq>> : r \in Range(lsdb[b])}

\* C3: after flooding converged on a connected topology, every routing
\* table has, for every destination, the true shortest-path cost and a
\* next hop that is a neighbour on a shortest path; own entry is (0, self).
RoutingTablesShortest ==
    (pc = "ls_done" /\ ~any_change /\ Connected)
        => \A r \in Nodes :
              /\ DOMAIN routing_tables[r] = Nodes
              /\ routing_tables[r][r] = <<0, r>>
              /\ \A d \in Nodes \ {r} :
                    LET e == routing_tables[r][d]
                    IN  /\ e[1] = Shortest(EdgeCostOf, r, d)
                        /\ e[2] \in Range(neighbors[r])
                        /\ EdgeCostOf(r, e[2]) + Shortest(EdgeCostOf, e[2], d) = e[1]

\* a router routes around its direct link to a neighbour, through another
\* neighbour
RoutedAroundDirectLink ==
    /\ pc = "ls_done" /\ ~any_change /\ Connected
    /\ \E r, d \in Nodes :
          /\ r # d /\ Adjacent(r, d)
          /\ routing_tables[r][d][2] # d
          /\ routing_tables[r][d][1] < EdgeCostOf(r, d)

\* ------------------------------------------------------------------------
\* Path-vector
\* ------------------------------------------------------------------------
\* C4: a path installed by receive_update never contains its owner; the
\* only stored path with the owner in it is the originated [self].
LoopFreePaths ==
    pc \in {"bgp_idle", "bgp_loop", "bgp_send", "bgp_returned"}
        => \A a \in Nodes : \A p \in Prefixes :
              a \in Range(local_rib[a][p])
                  => (p \in orig_prefixes[a] /\ local_rib[a][p] = <<a>>)

\* a node was offered a path through itself that it would have preferred to
\* what it has, and did not take it
LoopRejected ==
    /\ pc = "bgp_send"
    /\ msg.to # NoHop
    /\ msg.to \in Range(msg.body)
    /\ BetterPath(msg.body, local_rib[msg.to]["P"])
    /\ local_rib[msg.to]["P"] # msg.body

\* every loop-free path of the topology from x to the originator o that
\* avoids the nodes of `visited`
RECURSIVE PathsFrom(_, _, _)
PathsFrom(x, o, visited) ==
    IF x = o THEN {<<o>>}
    ELSE UNION {{<<x>> \o q : q \in PathsFrom(y, o, visited \cup {x})} :
                   y \in {y \in Nodes \ (visited \cup {x}) : Adjacent(x, y)}}

Candidates(n, o) == UNION {PathsFrom(a, o, {n}) : a \in Range(neighbors[n])}

\* lexicographic order of two sequences of numbers
RECURSIVE NumListLess(_, _)
NumListLess(x, y) ==
    IF y = <<>> THEN FALSE
    ELSE IF x = <<>> THEN TRUE
    ELSE IF Head(x) # Head(y) THEN Head(x) < Head(y)
    ELSE NumListLess(Tail(x), Tail(y))

\* C5: at convergence, with one originator, every other node that reaches
\* the originator stores a path of least length among the loop-free paths
\* from its neighbours, and the lexicographically smallest of those.
PathVectorOptimal ==
    (BgpConverged /\ withdrawals = 0 /\ Cardinality(Originators) = 1)
        => LET o == CHOOSE a \in Originators : TRUE
           IN  \A n \in Nodes \ {o} :
                  Candidates(n, o) # {}
                      => LET stored == local_rib[n]["P"]
                         IN  /\ stored \in Candidates(n, o)
                             /\ \A q \in Candidates(n, o) :
                                   /\ Len(stored) <= Len(q)
                                   /\ Len(q) = Len(stored) => ~NumListLess(q, stored)

\* what does hold: the stored path is the smallest in the order of the
\* identifiers' str() texts
PathVectorOptimalAsText ==
    (BgpConverged /\ withdrawals = 0 /\ Cardinality(Originators) = 1)
        => LET o == CHOOSE a \in Originators : TRUE
           IN  \A n \in Nodes \ {o} :
                  Candidates(n, o) # {}
                      => LET stored == local_rib[n]["P"]
                         IN  /\ stored \in Candidates(n, o)
                             /\ \A q \in Candidates(n, o) :
                                   /\ Len(stored) <= Len(q)
                                   /\ Len(q) = Len(stored) => ~StrListLess(q, stored)

\* C6: the only originator withdrew the prefix after a converged run, and
\* bgp_propagate ran again to a round without change: no node keeps an
\* entry for the prefix.
WithdrawalClearsPrefix ==
    (/\ BgpConverged /\ Len(returned) = 2 /\ ~returned[1][2]
     /\ withdrawals = 1
     /\ Cardinality(Originators) = 1
     /\ \A o \in Originators : local_rib[o]["P"] = NoPath)
        => \A n \in Nodes : local_rib[n]["P"] = NoPath

\* C7: the value bgp_propagate returns tells a converged run from a run
\* that gave up: two calls with the same budget that return the same
\* number agree on whether the last round changed anything.
ReturnTellsConvergence ==
    \A i, j \in DOMAIN returned :
        returned[i][1] = returned[j][1] => returned[i][2] = returned[j][2]

\* ------------------------------------------------------------------------
\* The round engine
\* ------------------------------------------------------------------------
\* the change counts of a finished run: one per round, positive before the
\* last, the last zero exactly when the run converged
CountsDescribeRun(counts, n, converged) ==
    /\ Len(counts) = n
    /\ \A k \in 1..(Len(counts) - 1) : counts[k] > 0
    /\ Last(counts) = 0 <=> converged
    /\ Last(counts) > 0 <=> ~converged

\* C8: simulate_rip and flood_lsas return one change count per round run,
\* positive before the last; the last is 0 exactly on convergence and
\* positive exactly when the budget ran out with changes still occurring.
ConvergenceMetadata ==
    /\ RipReturned
          => CountsDescribeRun(updates_per_round, RipReturnedRounds, pc = "rip_converged")
    /\ LsFlooded
          => CountsDescribeRun(advs_per_round, rounds,
                               ~(any_change /\ rounds >= MAX_FLOOD_ROUNDS))

\* simulate_rip used up its budget while the last round still changed tables
GaveUpWithChanges ==
    /\ pc = "rip_maxed"
    /\ Len(updates_per_round) = max_rounds
    /\ Last(updates_per_round) > 0

\* C9: a run stops at the first round without change: that round is
\* counted in the returned number, no further round can start, and every
\* node's state is what it was at the start of that round.
StopsAtFirstQuietRound ==
    /\ pc = "rip_converged"
          => /\ dv = snapshots
             /\ RipReturnedRounds = Len(updates_per_round)
             /\ \A k \in 1..Len(updates_per_round) :
                   updates_per_round[k] = 0 <=> k = Len(updates_per_round)
             /\ ~ENABLED RipBeginRound
    /\ (LsFlooded /\ ~any_change)
          => /\ lsdb = snapshots
             /\ rounds = Len(advs_per_round)
             /\ \A k \in 1..Len(advs_per_round) :
                   advs_per_round[k] = 0 <=> k = Len(advs_per_round)
             /\ ~ENABLED LsBeginRound
    /\ BgpConverged
          => /\ local_rib = snapshots
             /\ Last(returned)[1] = rounds
             /\ ~ENABLED BgpBeginRound
    /\ (pc = "bgp_loop" /\ rounds > 0) => any_change

\* a path-vector run converged in its third round or later
ConvergedAfterSeveralRounds == BgpConverged /\ rounds >= 3

\* C10: what a sender delivers in a round is built from its state at the
\* start of the round: the snapshot is the state at the start, it is not
\* touched during the round, and every delivered advertisement is the one
\* computed from the sender's snapshot.
SnapshotDiscipline ==
    [][/\ (pc' \in {"rip_send", "ls_send", "bgp_send"} /\ pc' # pc)
          => /\ pc' = "rip_send" => (snapshots' = dv /\ dv' = dv)
             /\ pc' = "ls_send" => (snapshots' = lsdb /\ lsdb' = lsdb)
             /\ pc' = "bgp_send" => (snapshots' = local_rib /\ local_rib' = local_rib)
       /\ (pc \in {"rip_send", "ls_send", "bgp_send"} /\ pc' = pc)
          => /\ snapshots' = snapshots
             /\ msg' # msg
                   => /\ pc = "rip_send" => msg'.body = snapshots[msg'.from]
                      /\ pc = "ls_send" => msg'.body = snapshots[msg'.from]
                      /\ pc = "bgp_send"
                            => msg'.body = Advertised(msg'.from, snapshots[msg'.from]["P"])
      ]_vars

\* a router whose table changed earlier in the round delivers its snapshot
SenderChangedBeforeSending ==
    /\ pc = "rip_send"
    /\ msg.from # NoHop
    /\ dv[msg.from] # snapshots[msg.from]
    /\ msg.body = snapshots[msg.from]

\* ------------------------------------------------------------------------
\* Distance-vector tables
\* ------------------------------------------------------------------------
\* C11: in every run of simulate_rip no stored cost ever increases: every
\* step leaves every router's cost to every destination equal or lower.
CostsNeverIncrease ==
    [][\A u \in DOMAIN dv : \A d \in DOMAIN dv[u] : dv'[u][d][1] <= dv[u][d][1]]_vars

\* a finite cost was replaced by a lower one during a round
FiniteCostLowered ==
    /\ pc = "rip_send"
    /\ \E u \in DOMAIN dv : \E d \in DOMAIN dv[u] :
          /\ snapshots[u][d][1] < INF
          /\ dv[u][d][1] < snapshots[u][d][1]

\* ------------------------------------------------------------------------
\* One more round
\* ------------------------------------------------------------------------
\* the deliveries of one round, <<sender, receiver>>, in the order of the
\* nested loops: for name in routers: for nb in routers[name].neighbors
RECURSIVE PairsFrom(_)
PairsFrom(c) ==
    IF c[1] > Len(all_nodes) THEN <<>>
    ELSE <<<<all_nodes[c[1]], neighbors[all_nodes[c[1]]][c[2]]>>>> \o PairsFrom(NextPair(c))

\* one round of simulate_rip on the tables cur with the snapshots snap:
\* <<the tables afterwards, updates_this_round>>
RECURSIVE RipRound(_, _, _)
RipRound(cur, snap, pairs) ==
    IF pairs = <<>> THEN <<cur, 0>>
    ELSE LET name == Head(pairs)[1]
             nb == Head(pairs)[2]
             c == LinkCost(nb, name)
             changed == Updated(cur[nb], snap[name], c)
             rest == RipRound([cur EXCEPT ![nb] = ProcessUpdate(cur[nb], name, snap[name], c)],
                              snap, Tail(pairs))
         IN  <<rest[1], rest[2] + (IF changed THEN 1 ELSE 0)>>

\* one round of flood_lsas on the databases cur with the snapshots snap:
\* <<the databases afterwards, advs>>
RECURSIVE LsRound(_, _, _)
LsRound(cur, snap, pairs) ==
    IF pairs = <<>> THEN <<cur, 0>>
    ELSE LET name == Head(pairs)[1]
             nb == Head(pairs)[2]
             got == ReceiveAll(cur[nb], snap[name])
             rest == LsRound([cur EXCEPT ![nb] = got[1]], snap, Tail(pairs))
         IN  <<rest[1], rest[2] + got[2]>>

\* C12: after a run ended with a round without change, one more round on
\* the same states changes no node's state and counts zero changes; a second
\* call of bgp_propagate returns after 1 round with every RIB as it was.
IdempotentAfterConvergence ==
    /\ pc = "rip_converged"
          => RipRound(dv, dv, PairsFrom(FirstPair)) = <<dv, 0>>
    /\ (LsFlooded /\ ~any_change)
          => LsRound(lsdb, lsdb, PairsFrom(FirstPair)) = <<lsdb, 0>>
    /\ (pc = "bgp_returned" /\ Len(returned) = 2 /\ ~returned[1][2] /\ withdrawals = 0)
          => /\ returned[2] = <<1, FALSE>>
             /\ local_rib = snapshots

\* bgp_propagate was called again after a run of several rounds converged
SecondCallAfterConvergence ==
    /\ pc = "bgp_returned" /\ Len(returned) = 2 /\ withdrawals = 0
    /\ ~returned[1][2]
    /\ returned[1][1] >= 3

\* C19: every router's entry for itself is (0, self), after initialisation
\* and after every delivery of every round (link costs are positive).
SelfEntryKept ==
    \A n \in DOMAIN dv : dv[n][n] = <<0, n>>

\* a delivery changed the receiver's table and left its own entry alone
ReceiverChangedKeepsSelf ==
    /\ pc = "rip_send"
    /\ msg.to # NoHop
    /\ dv[msg.to] # snapshots[msg.to]
    /\ msg.body[msg.to][1] > 0
    /\ dv[msg.to][msg.to] = <<0, msg.to>>

\* ------------------------------------------------------------------------
\* Unreachable destinations
\* ------------------------------------------------------------------------
\* C13: the routing table computed for a router has an entry for every node
\* of the topology the router cannot reach, and that entry is
\* (infinite, None).
LsUnreachableListed ==
    pc = "ls_done"
        => \A r, d \in Nodes :
              Shortest(HopCost, r, d) = Infinite
                  => /\ d \in DOMAIN routing_tables[r]
                     /\ routing_tables[r][d] = <<Infinite, NoHop>>

\* what the tables do hold: exactly the nodes the router reaches
LsTablesListReachable ==
    pc = "ls_done"
        => \A r \in Nodes :
              DOMAIN routing_tables[r] = {d \in Nodes : Shortest(HopCost, r, d) # Infinite}

\* the nodes joined to a node of S by a chain of links
RECURSIVE Component(_)
Component(S) ==
    LET T == S \cup {v \in Nodes : \E u \in S : Adjacent(u, v)}
    IN  IF T = S THEN S ELSE Component(T)

\* C14 as stated: on a disconnected graph every destination in another
\* component stays at (INF, None) from initialisation on, and simulate_rip
\* ends with a round without update, whatever the budget.
RipUnreachableAnyBudget ==
    /\ \A n \in Nodes : \A d \in Nodes \ Component({n}) : dv[n][d] = <<INF, NoHop>>
    /\ (RipReturned /\ ~Connected) => pc = "rip_converged"

\* C14, amended: the same, the run ending with a round without update when
\* the budget is at least the number of nodes.
RipUnreachableKept ==
    /\ \A n \in Nodes : \A d \in Nodes \ Component({n}) : dv[n][d] = <<INF, NoHop>>
    /\ (RipReturned /\ ~Connected /\ max_rounds >= Len(all_nodes))
          => pc = "rip_converged"

\* a disconnected graph whose routers learned routes before the run ended
\* with a round without update
DisconnectedConverged ==
    /\ pc = "rip_converged"
    /\ ~Connected
    /\ max_rounds >= Len(all_nodes)
    /\ round_no >= 2
    /\ \E n, d \in Nodes : dv[n][d] = <<INF, NoHop>>

\* ------------------------------------------------------------------------
\* Malformed topologies
\* ------------------------------------------------------------------------
\* costs a caller can put on a link, positive or not
AnyCosts == {0 - 1, 0, 1}

\* pairs of endpoints a caller can pass to G.add_edge, self-loops included
AnyPairs(n) == {p \in (1..n) \X (1..n) : p[1] <= p[2]}

AnyEdgeLists(n) ==
    UNION {{es \in [1..k -> AnyPairs(n) \X AnyCosts] :
               \A a, b \in 1..k : a # b => es[a][1] # es[b][1]} : k \in 0..MaxEdges}

\* simulate_rip(G, weighted=True) up to the loop, for any graph G a caller
\* can build: nothing inspects the links or their costs
InitRipAnyInput ==
    \E n \in 1..(MaxNodes - 1) :
      \E es \in AnyEdgeLists(n), mr \in 1..n :
        LET nodeSeq == [k \in 1..n |-> k]
            nbs == [u \in 1..n |-> NeighborList(EdgeTriples(es), u)]
        IN  /\ all_nodes = nodeSeq
            /\ edges = EdgeTriples(es)
            /\ neighbors = nbs
            /\ weighted = TRUE
            /\ max_rounds = mr
            /\ pc = "rip_loop"
            /\ cursor = <<1, 1>>
            /\ msg = NoMsg
            /\ dv = [u \in 1..n |-> InitialDV(u, nodeSeq, nbs, TRUE, EdgeTriples(es))]
            /\ snapshots = [u \in 1..n |-> <<>>]
            /\ round_no = 0
            /\ any_update = FALSE
            /\ updates_this_round = 0
            /\ updates_per_round = <<>>
            /\ rounds = 0
            /\ any_change = FALSE
            /\ IdleLs
            /\ IdleBgp
            /\ IdleSched
            /\ IdleRouter
            /\ IdleGbn

SpecRipAnyInput == InitRipAnyInput /\ [][NextRip]_vars

Malformed ==
    \E k \in DOMAIN edges : edges[k][1] = edges[k][2] \/ edges[k][3] <= 0

\* C15: a topology with a self-loop or a non-positive link cost is rejected
\* before the first round: no round ever starts on it.
MalformedRejected == Malformed => (round_no = 0 /\ pc # "rip_send")

\* ------------------------------------------------------------------------
\* Scenarios
\* ------------------------------------------------------------------------
\* the 3-node triangle with all link costs 1
Triangle ==
    /\ Len(all_nodes) = 3
    /\ Len(edges) = 3
    /\ \A k \in DOMAIN edges : LinkCost(edges[k][1], edges[k][2]) = 1

\* C16: on the triangle simulate_rip converges in at most 2 rounds, and
\* every node's entry for each other node is (1, that node).
TriangleConverges ==
    (RipReturned /\ Triangle)
        => /\ pc = "rip_converged"
           /\ RipReturnedRounds <= 2
           /\ \A u, d \in Nodes : u # d => dv[u][d] = <<1, d>>

\* the run on the weighted triangle ended
TriangleRan == RipReturned /\ Triangle /\ weighted

\* the 4-node square 1-2-3-4 with one diagonal, the five links added in any
\* order; the sides cost 1 or 2, the diagonal less than either two-hop path
\* between its endpoints
SquareEdgeLists ==
    {es \in [1..5 -> NodePairs(4) \X {1, 2, 3}] :
        \E diag \in {<<1, 3>>, <<2, 4>>} :
            LET cost(p) == (CHOOSE k \in 1..5 : es[k][1] = p)
                costOf(p) == es[cost(p)][2]
                a == diag[1]
                b == diag[2]
                others == {1, 2, 3, 4} \ {a, b}
            IN  /\ {es[k][1] : k \in 1..5} = {<<1, 2>>, <<2, 3>>, <<3, 4>>, <<1, 4>>, diag}
                /\ \A p \in {<<1, 2>>, <<2, 3>>, <<3, 4>>, <<1, 4>>} : costOf(p) \in {1, 2}
                /\ \A m \in others :
                      costOf(diag) < costOf(SortedLink(a, m)) + costOf(SortedLink(m, b))}

\* main of ospf_sim.py on the square
InitSquare ==
    \E es \in SquareEdgeLists :
        LET nodeSeq == [k \in 1..4 |-> k]
        IN  /\ all_nodes = nodeSeq
            /\ edges = EdgeTriples(es)
            /\ neighbors = [u \in 1..4 |-> NeighborList(EdgeTriples(es), u)]
            /\ weighted = TRUE
            /\ max_rounds = MAX_FLOOD_ROUNDS
            /\ pc = "ls_originate"
            /\ cursor = <<1, 1>>
            /\ msg = NoMsg
            /\ snapshots = [u \in 1..4 |-> <<>>]
            /\ lsdb = [u \in 1..4 |-> <<>>]
            /\ seq_counter = [u \in 1..4 |-> 1]
            /\ initial_lsas = [u \in 1..4 |-> <<>>]
            /\ rounds = 0
            /\ any_change = FALSE
            /\ advs = 0
            /\ advs_per_round = <<>>
            /\ routing_tables = <<>>
            /\ IdleRip
            /\ IdleBgp
            /\ IdleSched
            /\ IdleRouter
            /\ IdleGbn

SpecSquare == InitSquare /\ [][NextLs]_vars

\* the links whose two endpoints have three neighbours each
Diagonals ==
    {k \in DOMAIN edges :
        Len(neighbors[edges[k][1]]) = 3 /\ Len(neighbors[edges[k][2]]) = 3}

\* C17: on the square, after flooding converged, each endpoint of the
\* diagonal reaches the other with the diagonal's cost and the other endpoint
\* as next hop, and every entry of every table has the shortest-path cost.
SquareTakesDiagonal ==
    (pc = "ls_done" /\ ~any_change)
        => /\ \A k \in Diagonals :
                 LET a == edges[k][1]
                     b == edges[k][2]
                 IN  /\ routing_tables[a][b] = <<edges[k][3], b>>
                     /\ routing_tables[b][a] = <<edges[k][3], a>>
           /\ \A r, d \in Nodes :
                 /\ d \in DOMAIN routing_tables[r]
                 /\ routing_tables[r][d][1] = Shortest(EdgeCostOf, r, d)

\* the tables are computed on a square whose diagonal costs more than a side
DiagonalTaken ==
    /\ pc = "ls_done" /\ ~any_change
    /\ \E k \in Diagonals :
          /\ edges[k][3] >= 2
          /\ \E j \in DOMAIN edges : edges[j][3] < edges[k][3]
          /\ routing_tables[edges[k][1]][edges[k][2]] = <<edges[k][3], edges[k][2]>>

\* build_as_nodes on a linear chain of three ASes, the middle one
\* originating the prefix: any three AS numbers in any order of nodes_def,
\* the two peerings in either order
InitBgpChain ==
    \E nodeSeq \in {q \in [1..3 -> ASNs] : \A i, j \in 1..3 : i # j => q[i] # q[j]},
       mi \in 1..3, flip \in BOOLEAN, mr \in 1..3 :
        LET m == nodeSeq[mi]
            ends == Range(nodeSeq) \ {m}
            lo == Min(ends)
            hi == CHOOSE e \in ends : e # lo
            es == IF flip THEN <<<<hi, m, 1>>, <<m, lo, 1>>>>
                  ELSE <<<<lo, m, 1>>, <<m, hi, 1>>>>
        IN  /\ all_nodes = nodeSeq
            /\ edges = es
            /\ neighbors = [a \in Range(nodeSeq) |-> NeighborList(es, a)]
            /\ weighted = FALSE
            /\ max_rounds = mr
            /\ pc = "bgp_idle"
            /\ cursor = <<1, 1>>
            /\ msg = NoMsg
            /\ snapshots = [a \in Range(nodeSeq) |-> <<>>]
            /\ orig_prefixes = [a \in Range(nodeSeq) |-> IF a = m THEN Prefixes ELSE {}]
            /\ local_rib = [a \in Range(nodeSeq) |->
                               [p \in Prefixes |-> IF a = m THEN <<a>> ELSE NoPath]]
            /\ withdrawals = 0
            /\ withdrawn = <<>>
            /\ returned = <<>>
            /\ rounds = 0
            /\ any_change = FALSE
            /\ IdleRip
            /\ IdleLs
            /\ IdleSched
            /\ IdleRouter
            /\ IdleGbn

SpecBgpChain == InitBgpChain /\ [][NextBgp]_vars

\* the node of the chain with two neighbours, and the two others
Middle == CHOOSE m \in Nodes : Len(neighbors[m]) = 2

Endpoints == Nodes \ {Middle}

\* C18 as stated: after the first bgp_propagate converged on the chain, both
\* endpoints hold an entry learned from the middle node, and it is a path of
\* two hops through the middle node.
ChainEndpointsTwoHop ==
    (BgpConverged /\ Len(returned) = 1 /\ withdrawals = 0)
        => \A e \in Endpoints :
              /\ local_rib[e]["P"] # NoPath
              /\ Head(local_rib[e]["P"]) = Middle
              /\ Len(local_rib[e]["P"]) = 2

\* C18, amended: both endpoints hold the entry learned from the middle
\* node, the one-element path [middle].
ChainEndpointsLearn ==
    (BgpConverged /\ Len(returned) = 1 /\ withdrawals = 0)
        => \A e \in Endpoints : local_rib[e]["P"] = <<Middle>>

\* the first run on the chain converged, in its second round
ChainConverged ==
    /\ BgpConverged /\ Len(returned) = 1 /\ withdrawals = 0
    /\ returned[1][1] = 2
    /\ \A e \in Endpoints : local_rib[e]["P"] # NoPath

\* ------------------------------------------------------------------------
\* Packet schedulers
\* ------------------------------------------------------------------------
\* position of a packet in a list of distinct packets
PositionIn(q, x) == CHOOSE k \in DOMAIN q : q[k] = x

\* what the results of the schedulers look like once they are there
SchedulerResults ==
    /\ priority_result # NoList
          => LET in == packet_list.items
                 out == priority_result.items
             IN  /\ priority_result.obj # packet_list.obj
                 /\ Len(out) = Len(in)
                 /\ Range(out) = Range(in)
                 /\ \A i, j \in DOMAIN out :
                       i < j => /\ out[i].priority <= out[j].priority
                                /\ out[i].priority = out[j].priority
                                      => PositionIn(in, out[i]) < PositionIn(in, out[j])
    /\ fifo_result # NoList
          => /\ fifo_result.obj # packet_list.obj
             /\ fifo_result.items = packet_list.items

\* C20: priority_scheduler returns a new list that is a permutation of the
\* input in non-decreasing priority, packets of equal priority in arrival
\* order; fifo_scheduler returns a new list in arrival order; neither
\* changes the input list.
SchedulersOrder ==
    /\ []SchedulerResults
    /\ [][packet_list' = packet_list]_vars

\* the priority order moved packets and kept two of equal priority in
\* arrival order
EqualPrioritiesReordered ==
    /\ priority_result # NoList
    /\ fifo_result # NoList
    /\ priority_result.items # packet_list.items
    /\ \E i, j \in DOMAIN packet_list.items :
          /\ i < j
          /\ packet_list.items[i].priority = packet_list.items[j].priority
          /\ \E k \in DOMAIN packet_list.items :
                k < i /\ packet_list.items[k].priority > packet_list.items[i].priority

\* ------------------------------------------------------------------------
\* Forwarding
\* ------------------------------------------------------------------------
RECURSIVE Pow2(_)
Pow2(k) == IF k = 0 THEN 1 ELSE 2 * Pow2(k - 1)

\* the i-th bit, from the left, of the 32-bit address of four octets
BitOf(octets, i) ==
    (octets[((i - 1) \div 8) + 1] \div Pow2(7 - ((i - 1) % 8))) % 2

\* what a text denotes
DenotedBy(text, S) == CHOOSE c \in S : c.text = text

PrefixLength(cidr) == DenotedBy(cidr, Cidrs).len

\* the route's prefix is a prefix of the destination: the route denotes a
\* prefix length, and the two addresses agree on that many leading bits
Covers(cidr, dest_ip) ==
    /\ PrefixLength(cidr) >= 0
    /\ \A i \in 1..PrefixLength(cidr) :
          BitOf(DenotedBy(cidr, Cidrs).octets, i) = BitOf(DenotedBy(dest_ip, Destinations).octets, i)

Matching == {k \in DOMAIN routes : Covers(routes[k].cidr, routed.dest_ip)}

\* C21: route_packet returns the output link of the entry with the longest
\* prefix that is a prefix of the destination (the first such entry of the
\* routing list among those of equal length), and "Default Gateway" exactly
\* when no entry's prefix matches.
LongestPrefixMatch ==
    routed # NotRouted
        => IF Matching = {} THEN routed.link = "Default Gateway"
           ELSE LET best == CHOOSE k \in Matching :
                                \A j \in Matching :
                                    \/ PrefixLength(routes[k].cidr) > PrefixLength(routes[j].cidr)
                                    \/ /\ PrefixLength(routes[k].cidr) = PrefixLength(routes[j].cidr)
                                       /\ k <= j
                IN  /\ routed.link = routes[best].link
                    /\ routed.link # "Default Gateway"

\* a packet was routed by the longer of two matching routes, listed after
\* the shorter one with another link
LongerRouteListedLater ==
    /\ routed # NotRouted
    /\ \E i, j \in Matching :
          /\ i < j
          /\ PrefixLength(routes[i].cidr) < PrefixLength(routes[j].cidr)
          /\ routes[i].link # routes[j].link
          /\ routed.link = routes[j].link

\* ------------------------------------------------------------------------
\* Single deliveries
\* ------------------------------------------------------------------------
\* C22: a call of process_update replaces the receiver's entry for a
\* destination of the advertised vector by (link cost + advertised cost,
\* neighbour) exactly when that candidate is strictly less than the current
\* cost, leaves every other entry as it was, and returns True exactly when
\* an entry was replaced.
RelaxationRule ==
    [][(pc = "rip_send" /\ ~LoopEnded)
          => LET name == Sender
                 nb == Receiver
                 vec == snapshots[name]
                 returnedTrue == updates_this_round' = updates_this_round + 1
                 returnedFalse == updates_this_round' = updates_this_round
             IN  /\ \A dest \in DOMAIN dv[nb] :
                       IF /\ dest \in DOMAIN vec
                          /\ LinkCost(nb, name) + vec[dest][1] < dv[nb][dest][1]
                       THEN dv'[nb][dest] = <<LinkCost(nb, name) + vec[dest][1], name>>
                       ELSE dv'[nb][dest] = dv[nb][dest]
                 /\ \A other \in DOMAIN dv \ {nb} : dv'[other] = dv[other]
                 /\ returnedTrue <=> dv'[nb] # dv[nb]
                 /\ returnedFalse <=> dv'[nb] = dv[nb]
                 /\ any_update' = (any_update \/ returnedTrue)
      ]_vars

\* the last delivery offered a candidate that tied with the cost the
\* receiver has through another next hop, and the entry was left alone
TieLeftAlone ==
    /\ pc = "rip_send"
    /\ msg.to # NoHop
    /\ \E dest \in DOMAIN msg.body \ {msg.to, msg.from} :
          /\ LinkCost(msg.to, msg.from) + msg.body[dest][1] = dv[msg.to][dest][1]
          /\ dv[msg.to][dest][2] # msg.from
          /\ dv[msg.to][dest] = snapshots[msg.to][dest]

\* ------------------------------------------------------------------------
\* receive_lsa / receive_lsp called on its own
\* ------------------------------------------------------------------------
\* the LSAs handed to router 1: any origin, cost and sequence number for
\* its two links
AnyLsas ==
    [link : {<<1, 2>>, <<1, 3>>}, origin : {1, 2, 3}, seq : 1..MaxSeq, cost : {1, 2}]

\* OSPFRouter(1, [2, 3]): an empty LSDB
InitReceive ==
    /\ all_nodes = <<1>>
    /\ edges = <<>>
    /\ neighbors = [u \in {1} |-> <<2, 3>>]
    /\ weighted = TRUE
    /\ max_rounds = 0
    /\ pc = "ls_receive"
    /\ cursor = <<1, 1>>
    /\ msg = NoMsg
    /\ snapshots = <<>>
    /\ lsdb = [u \in {1} |-> <<>>]
    /\ seq_counter = [u \in {1} |-> 1]
    /\ initial_lsas = [u \in {1} |-> <<>>]
    /\ rounds = 0
    /\ any_change = FALSE
    /\ advs = 0
    /\ advs_per_round = <<>>
    /\ routing_tables = <<>>
    /\ IdleRip
    /\ IdleBgp
    /\ IdleSched
    /\ IdleRouter
    /\ IdleGbn

\* changed = router.receive_lsa(lsa); any_change holds the value returned
ReceiveOne ==
    /\ pc = "ls_receive"
    /\ \E lsa \in AnyLsas :
          /\ msg' = [from |-> lsa.origin, to |-> 1, body |-> <<lsa>>]
          /\ lsdb' = [lsdb EXCEPT ![1] = ReceiveLsa(@, lsa)]
          /\ any_change' = Accepts(lsdb[1], lsa)
    /\ UNCHANGED <<gbnVars, topoVars, pc, cursor, snapshots, ripVars, bgpVars, schedVars, routerVars,
                   seq_counter, initial_lsas, rounds, advs, advs_per_round, routing_tables>>

SpecReceive == InitReceive /\ [][ReceiveOne]_vars

\* the records of an LSDB, whatever their order
Records(db) == Range(db)

Stored(db, link) == {r \in Records(db) : r.link = link}

\* C24: receive_lsa overwrites the record of the link-id and returns True
\* exactly when the router has no record for the link-id or the received
\* sequence number is strictly greater than the stored one; otherwise it
\* returns False and the whole LSDB is unchanged, whatever the received
\* origin and cost.
AcceptanceRule ==
    [][pc = "ls_receive"
          => LET lsa == msg'.body[1]
                 old == Stored(lsdb[1], lsa.link)
             IN  IF old = {} \/ \A r \in old : lsa.seq > r.seq
                 THEN /\ any_change'
                      /\ Stored(lsdb'[1], lsa.link) = {lsa}
                      /\ Records(lsdb'[1]) \ {lsa} = Records(lsdb[1]) \ old
                 ELSE /\ ~any_change'
                      /\ lsdb' = lsdb
      ]_vars

\* an LSA with the stored sequence number and another origin and cost was
\* discarded
DuplicateFromOtherOrigin ==
    /\ pc = "ls_receive"
    /\ msg.to # NoHop
    /\ ~any_change
    /\ \E r \in Stored(lsdb[1], msg.body[1].link) :
          /\ r.seq = msg.body[1].seq
          /\ r.origin # msg.body[1].origin
          /\ r.cost # msg.body[1].cost

\* ------------------------------------------------------------------------
\* Sequence numbers in flooding
\* ------------------------------------------------------------------------
Max(S) == CHOOSE x \in S : \A y \in S : x >= y

\* the sequence numbers the two endpoints of a link gave to their records
\* for it
OriginatedSeqs(link) ==
    {l.seq : l \in {l \in Range(initial_lsas[link[1]]) \cup Range(initial_lsas[link[2]]) :
                       l.link = link}}

\* every router stores, for every link, a record with the greatest
\* sequence number originated for it
GreatestSeqStored ==
    (LsFlooded /\ ~any_change /\ Connected)
        => \A r \in Nodes : \A k \in DOMAIN edges :
              LET link == SortedLink(edges[k][1], edges[k][2])
              IN  /\ Stored(lsdb[r], link) # {}
                  /\ \A rec \in Stored(lsdb[r], link) : rec.seq = Max(OriginatedSeqs(link))

\* C25: during flooding the sequence number a router stores for a link-id
\* never decreases, and on a connected topology, after flooding converged,
\* the record every router stores for a link-id carries the greatest
\* sequence number among the records its two endpoints originated for it.
GreatestSeqRetained ==
    /\ [][\A r \in DOMAIN lsdb : \A old \in Records(lsdb[r]) :
             /\ Stored(lsdb'[r], old.link) # {}
             /\ \A new \in Stored(lsdb'[r], old.link) : new.seq >= old.seq]_vars
    /\ []GreatestSeqStored

\* flooding converged on a connected topology where a router gave up the
\* record it originated for one of its links for a newer one of the other
\* endpoint
OwnRecordReplaced ==
    /\ LsFlooded /\ ~any_change /\ Connected
    /\ \E r \in Nodes : \E l \in Range(initial_lsas[r]) :
          \E rec \in Stored(lsdb[r], l.link) : rec.seq > l.seq /\ rec.origin # r

\* ------------------------------------------------------------------------
\* Origination
\* ------------------------------------------------------------------------
\* the links of the topology at a router
IncidentLinks(name) ==
    {SortedLink(edges[k][1], edges[k][2]) : k \in {k \in DOMAIN edges : name \in {edges[k][1], edges[k][2]}}}

\* the list a call of originate_lsas returned
ReturnedLsas(name) == IF pc = "ls_originate" THEN initial_lsas'[name] ELSE msg'.body

\* C26: a call of originate_lsas creates exactly one record per incident
\* link, with the router as origin, the link's cost, and the next values of
\* the router's counter as sequence numbers (the counter starts at 1 and
\* moves only by origination, so the k-th record ever originated has
\* number k); each record replaces whatever the router's own LSDB stored
\* under the link-id, and nothing else changes.
OriginationRule ==
    /\ [](pc = "ls_originate" /\ cursor = <<1, 1>> => \A r \in DOMAIN seq_counter : seq_counter[r] = 1)
    /\ [][\A name \in DOMAIN seq_counter :
             IF (pc = "ls_originate" /\ cursor[1] <= Len(all_nodes) /\ name = all_nodes[cursor[1]])
                \/ (pc = "ls_done" /\ msg'.from = name /\ msg' # msg)
             THEN LET created == ReturnedLsas(name)
                  IN  /\ Len(created) = Cardinality(IncidentLinks(name))
                      /\ {created[i].link : i \in DOMAIN created} = IncidentLinks(name)
                      /\ \A i \in DOMAIN created :
                            /\ created[i].origin = name
                            /\ created[i].cost = EdgeCost(edges, created[i].link[1], created[i].link[2])
                            /\ created[i].seq = seq_counter[name] + i - 1
                            /\ Stored(lsdb'[name], created[i].link) = {created[i]}
                      /\ seq_counter'[name] = seq_counter[name] + Len(created)
                      /\ \A rec \in Records(lsdb[name]) :
                            rec.link \notin IncidentLinks(name) => rec \in Records(lsdb'[name])
                      /\ \A other \in DOMAIN lsdb \ {name} : lsdb'[other] = lsdb[other]
             ELSE seq_counter'[name] = seq_counter[name]]_vars

\* a router originated a second time and replaced, by its own record, a
\* record of another origin with a greater sequence number
ReoriginatedOverNewer ==
    /\ pc = "ls_done"
    /\ msg.from # NoHop
    /\ msg.from = msg.to
    /\ \E l \in Range(msg.body) :
          /\ l.seq > Len(msg.body)
          /\ Stored(lsdb[msg.to], l.link) = {l}
          /\ \E old \in Stored(snapshots[msg.to], l.link) :
                old.origin # msg.to /\ old.seq > l.seq

\* ------------------------------------------------------------------------
\* receive_update called on its own
\* ------------------------------------------------------------------------
\* the paths a caller can hand to receive_update: any identifiers, up to
\* MaxPathLen of them
AnyPaths == UNION {[1..n -> ASNs] : n \in 1..MaxPathLen}

\* ASNode(asn, neighbors, orig_prefixes), for any AS, originating the prefix
\* or not
InitReceiveUpdate ==
    \E asn \in ASNs, originates \in BOOLEAN :
        /\ all_nodes = <<asn>>
        /\ edges = <<>>
        /\ neighbors = [a \in {asn} |-> <<>>]
        /\ weighted = FALSE
        /\ max_rounds = 0
        /\ pc = "bgp_receive"
        /\ cursor = <<1, 1>>
        /\ msg = NoMsg
        /\ snapshots = <<>>
        /\ orig_prefixes = [a \in {asn} |-> IF originates THEN Prefixes ELSE {}]
        /\ local_rib = [a \in {asn} |-> [p \in Prefixes |-> IF originates THEN <<a>> ELSE NoPath]]
        /\ withdrawals = 0
        /\ withdrawn = <<>>
        /\ returned = <<>>
        /\ rounds = 0
        /\ any_change = FALSE
        /\ IdleRip
        /\ IdleLs
        /\ IdleSched
        /\ IdleRouter
        /\ IdleGbn

\* changed = node.receive_update(from_asn, prefix, path); any_change holds the
\* value returned
ReceiveUpdateOne ==
    /\ pc = "bgp_receive"
    /\ \E from_asn \in ASNs, prefix \in Prefixes, path \in AnyPaths :
          LET asn == all_nodes[1]
          IN  /\ msg' = [from |-> from_asn, to |-> asn, body |-> path]
              /\ local_rib' = [local_rib EXCEPT ![asn][prefix] = ReceiveUpdate(asn, @, path)]
              /\ any_change' = AcceptsPath(asn, local_rib[asn][prefix], path)
    /\ UNCHANGED <<gbnVars, topoVars, pc, cursor, snapshots, rounds, ripVars, lsOnly, orig_prefixes,
                   withdrawals, withdrawn, returned, schedVars, routerVars>>

SpecReceiveUpdate == InitReceiveUpdate /\ [][ReceiveUpdateOne]_vars

\* C27: a call of receive_update with a path that contains the receiver
\* returns False and leaves the receiver's RIB as it was, whatever it
\* stores for the prefix and however short the path.
LoopRejectionNoOp ==
    [][(pc = "bgp_receive" /\ msg'.to \in Range(msg'.body))
          => /\ ~any_change'
             /\ local_rib' = local_rib]_vars

\* a node without an entry for the prefix was handed the one-element path
\* of its own identifier and still has no entry
OwnIdentifierRejected ==
    /\ pc = "bgp_receive"
    /\ msg.to # NoHop
    /\ msg.body = <<msg.to>>
    /\ ~any_change
    /\ local_rib[msg.to]["P"] = NoPath

\* C28: a call of receive_update with a path that does not contain the
\* receiver installs the path as it is and returns True exactly when the
\* receiver has no path for the prefix, or the path has fewer elements, or
\* as many and a lexicographically smaller sequence of identifiers;
\* otherwise it returns False and the RIB is unchanged.
SelectionRule ==
    [][(pc = "bgp_receive" /\ msg'.to \notin Range(msg'.body))
          => LET current == local_rib[msg'.to]["P"]
                 path == msg'.body
             IN  IF \/ current = NoPath
                    \/ Len(path) < Len(current)
                    \/ Len(path) = Len(current) /\ NumListLess(path, current)
                 THEN /\ any_change'
                      /\ local_rib'[msg'.to]["P"] = path
                 ELSE /\ ~any_change'
                      /\ local_rib' = local_rib]_vars

\* what does hold: the same rule with the identifiers compared as the texts
\* str() gives
SelectionRuleAsText ==
    [][(pc = "bgp_receive" /\ msg'.to \notin Range(msg'.body))
          => LET current == local_rib[msg'.to]["P"]
                 path == msg'.body
             IN  IF \/ current = NoPath
                    \/ Len(path) < Len(current)
                    \/ Len(path) = Len(current) /\ StrListLess(path, current)
                 THEN /\ any_change'
                      /\ local_rib'[msg'.to]["P"] = path
                 ELSE /\ ~any_change'
                      /\ local_rib' = local_rib]_vars

\* ------------------------------------------------------------------------
\* Advertisements of bgp_propagate
\* ------------------------------------------------------------------------
\* the elements of a path other than a node, in their order
OthersOf(path, asn) == SelectSeq(path, LAMBDA p : p # asn)

\* C29: in every round a sender with a path in its round-start snapshot
\* delivers, to each of its neighbours in turn, its own identifier followed
\* by the elements of the snapshot path other than itself, in their order:
\* the path starts with the sender and contains it once, an originator
\* advertises [self]; a sender without a path delivers nothing.
AdvertisementRule ==
    [][(pc = "bgp_send" /\ ~LoopEnded)
          => IF snapshots[Sender]["P"] # NoPath
             THEN /\ msg'.from = Sender
                  /\ msg'.to = Receiver
                  /\ Head(msg'.body) = Sender
                  /\ Tail(msg'.body) = OthersOf(snapshots[Sender]["P"], Sender)
                  /\ Cardinality({k \in DOMAIN msg'.body : msg'.body[k] = Sender}) = 1
                  /\ snapshots[Sender]["P"] = <<Sender>> => msg'.body = <<Sender>>
                  /\ IF cursor[2] < Len(neighbors[Sender])
                     THEN cursor' = <<cursor[1], cursor[2] + 1>>
                     ELSE cursor'[1] > cursor[1] /\ cursor'[2] = 1
             ELSE /\ msg' = msg
                  /\ local_rib' = local_rib
                  /\ any_change' = any_change
                  /\ cursor'[1] > cursor[1]
      ]_vars

\* a node advertised a path it had learned from a neighbour, its own
\* identifier put in front
LearnedPathAdvertised ==
    /\ pc = "bgp_send"
    /\ msg.from # NoHop
    /\ Len(msg.body) >= 3
    /\ msg.body = <<msg.from>> \o snapshots[msg.from]["P"]

\* ------------------------------------------------------------------------
\* simulate_withdrawal called on its own
\* ------------------------------------------------------------------------
\* the prefixes of the nodes_def handed to build_as_nodes
TwoPrefixes == {"P", "Q"}

\* as_nodes = build_as_nodes(nodes_def, []): any ASes, each originating any
\* of the two prefixes
InitWithdraw ==
    \E N \in SUBSET ASNs \ {{}} :
      \E O \in [N -> SUBSET TwoPrefixes] :
        /\ all_nodes = SortNodes(N)
        /\ edges = <<>>
        /\ neighbors = [a \in N |-> <<>>]
        /\ weighted = FALSE
        /\ max_rounds = 0
        /\ pc = "bgp_withdraw"
        /\ cursor = <<1, 1>>
        /\ msg = NoMsg
        /\ snapshots = <<>>
        /\ orig_prefixes = O
        /\ local_rib = [a \in N |-> [p \in TwoPrefixes |-> IF p \in O[a] THEN <<a>> ELSE NoPath]]
        /\ withdrawals = 0
        /\ withdrawn = <<>>
        /\ returned = <<>>
        /\ rounds = 0
        /\ any_change = FALSE
        /\ IdleRip
        /\ IdleLs
        /\ IdleSched
        /\ IdleRouter
        /\ IdleGbn

\* simulate_withdrawal(as_nodes, withdrawing_asn, prefix), for any AS number
\* and prefix; msg holds the arguments
WithdrawOne ==
    /\ pc = "bgp_withdraw"
    /\ withdrawals < MaxCalls
    /\ \E withdrawing_asn \in ASNs, prefix \in TwoPrefixes :
        /\ msg' = [from |-> withdrawing_asn, to |-> withdrawing_asn, body |-> <<prefix>>]
        /\ local_rib' = Withdrawal(local_rib, withdrawing_asn, prefix)[1]
        /\ withdrawn' = Append(withdrawn, Withdrawal(local_rib, withdrawing_asn, prefix)[2])
        /\ withdrawals' = withdrawals + 1
    /\ UNCHANGED <<gbnVars, topoVars, pc, cursor, snapshots, rounds, any_change, ripVars, lsOnly,
                   orig_prefixes, returned, schedVars, routerVars>>

SpecWithdraw == InitWithdraw /\ [][WithdrawOne]_vars

\* C30: a call of simulate_withdrawal for an AS that exists and has the
\* prefix in its RIB removes exactly that entry, leaves every other entry of
\* every node as it was and returns True; for an unknown AS or a RIB without
\* the prefix it changes nothing and returns False.
WithdrawalFrame ==
    [][pc = "bgp_withdraw"
          => LET asn == msg'.from
                 prefix == msg'.body[1]
             IN  /\ Len(withdrawn') = Len(withdrawn) + 1
                 /\ orig_prefixes' = orig_prefixes
                 /\ IF asn \in DOMAIN local_rib /\ local_rib[asn][prefix] # NoPath
                    THEN /\ Last(withdrawn') = TRUE
                         /\ DOMAIN local_rib' = DOMAIN local_rib
                         /\ local_rib'[asn][prefix] = NoPath
                         /\ \A a \in DOMAIN local_rib : \A p \in DOMAIN local_rib[a] :
                               <<a, p>> # <<asn, prefix>> => local_rib'[a][p] = local_rib[a][p]
                    ELSE /\ Last(withdrawn') = FALSE
                         /\ local_rib' = local_rib
      ]_vars

\* an AS that originates both prefixes withdrew one and keeps the other,
\* and a second call for an AS that is not there returned False
WithdrewOneOfTwo ==
    /\ pc = "bgp_withdraw"
    /\ withdrawn = <<TRUE, FALSE>>
    /\ msg.from \notin DOMAIN local_rib
    /\ \E a \in DOMAIN local_rib :
          /\ orig_prefixes[a] = TwoPrefixes
          /\ \E p, q \in TwoPrefixes : local_rib[a][p] = NoPath /\ local_rib[a][q] = <<a>>

\* ------------------------------------------------------------------------
\* Path-vector RIBs
\* ------------------------------------------------------------------------
\* C31 as stated: in every state of the runs of bgp_propagate, whatever the
\* originators of the prefix, a node that originates the prefix stores the
\* path [self] for it.
OriginatorKeepsRoute ==
    withdrawals = 0
        => \A a \in Originators : local_rib[a]["P"] = <<a>>

\* C31, amended: the same, for a prefix that one node originates.
SoleOriginatorKeepsRoute ==
    (withdrawals = 0 /\ Cardinality(Originators) = 1)
        => \A a \in Originators : local_rib[a]["P"] = <<a>>

\* the only originator was handed a path by a neighbour that had learned the
\* prefix, and still stores [self]
OriginatorOfferedPath ==
    /\ pc = "bgp_send"
    /\ withdrawals = 0
    /\ Cardinality(Originators) = 1
    /\ msg.to \in Originators
    /\ Len(msg.body) >= 2
    /\ local_rib[msg.to]["P"] = <<msg.to>>

\* a sequence of distinct nodes, each adjacent to the next
SimplePath(path) ==
    /\ \A i, j \in DOMAIN path : i # j => path[i] # path[j]
    /\ \A i \in 1..(Len(path) - 1) : Adjacent(path[i], path[i + 1])

\* C32: in every state of the runs of bgp_propagate from the origin state,
\* every RIB entry of a node other than its own originated [self] is a
\* non-empty sequence without repeated identifier, from a neighbour of the
\* node, along links of the topology, to a node that originates the prefix.
StoredPathsSimple ==
    withdrawals = 0
        => \A n \in Nodes :
              LET path == local_rib[n]["P"]
              IN  (path # NoPath /\ ~(n \in Originators /\ path = <<n>>))
                      => /\ Len(path) >= 1
                         /\ SimplePath(path)
                         /\ Head(path) \in Range(neighbors[n])
                         /\ Last(path) \in Originators

\* a node stores a path of three nodes
ThreeNodePathStored ==
    /\ withdrawals = 0
    /\ \E n \in Nodes : Len(local_rib[n]["P"]) = 3

\* the route of n is the advertised form of what its first element stores
RestsOnNextHop(n) ==
    LET path == local_rib[n]["P"]
        a == Head(path)
    IN  /\ local_rib[a]["P"] # NoPath
        /\ <<a>> \o OthersOf(local_rib[a]["P"], a) = path

\* C33: when bgp_propagate ended with a round without change and nothing was
\* withdrawn, every path a node stores and did not originate is the
\* advertised form of the path its first element stores now.
ConsistentAtConvergence ==
    (BgpConverged /\ withdrawals = 0)
        => \A n \in Nodes :
              (local_rib[n]["P"] # NoPath /\ ~(n \in Originators /\ local_rib[n]["P"] = <<n>>))
                  => RestsOnNextHop(n)

\* what does hold: the same for a prefix that one node originates
ConsistentWithOneOriginator ==
    (BgpConverged /\ withdrawals = 0 /\ Cardinality(Originators) = 1)
        => \A n \in Nodes :
              (local_rib[n]["P"] # NoPath /\ ~(n \in Originators /\ local_rib[n]["P"] = <<n>>))
                  => RestsOnNextHop(n)

\* ------------------------------------------------------------------------
\* Distance-vector next hops
\* ------------------------------------------------------------------------
\* following the stored next hops from n towards d for at most `fuel` steps
\* arrives at d without coming back to a node of `seen`
RECURSIVE Follows(_, _, _, _)
Follows(n, d, seen, fuel) ==
    IF n = d THEN TRUE
    ELSE IF fuel = 0 \/ dv[n][d][2] \in seen \/ dv[n][d][2] \notin Nodes THEN FALSE
    ELSE Follows(dv[n][d][2], d, seen \cup {dv[n][d][2]}, fuel - 1)

NextHopsAreNeighbours ==
    \A n \in Nodes : \A d \in Nodes \ {n} :
        dv[n][d][1] < INF => dv[n][d][2] \in Range(neighbors[n])

CostsAddUp ==
    \A n \in Nodes : \A d \in Nodes \ {n} :
        dv[n][d][1] < INF
            => /\ dv[n][d][1] = LinkCost(n, dv[n][d][2]) + dv[dv[n][d][2]][d][1]
               /\ Follows(n, d, {n}, Cardinality(Nodes))

\* C34: in every state of simulate_rip the next hop of an entry of finite
\* cost is a neighbour of the node; once a round brought no update, the cost
\* of such an entry is the cost of the link to the next hop plus the next
\* hop's cost, and the next hops lead to the destination without a repeat.
NextHopConsistency ==
    /\ NextHopsAreNeighbours
    /\ pc = "rip_converged" => CostsAddUp

\* converged with a neighbour that is reached through another neighbour
NeighbourReachedIndirectly ==
    /\ pc = "rip_converged"
    /\ \E n \in Nodes : \E d \in Range(neighbors[n]) :
          dv[n][d][1] < INF /\ dv[n][d][2] # d

\* ------------------------------------------------------------------------
\* LSDB content
\* ------------------------------------------------------------------------
LinkIds(db) == {r.link : r \in Range(db)}

TopologyLinks == {SortedLink(edges[k][1], edges[k][2]) : k \in DOMAIN edges}

\* one record per topology link and no other, each with the link's cost
HoldsTheTopology(db) ==
    /\ LinkIds(db) = TopologyLinks
    /\ Len(db) = Cardinality(TopologyLinks)
    /\ \A r \in Range(db) : r.cost = EdgeCostOf(r.link[1], r.link[2])

ConvergedLsdbHoldsTopology ==
    (LsFlooded /\ ~any_change /\ Connected)
        => \A n \in Nodes : HoldsTheTopology(lsdb[n])

NoForeignLinkId == \A n \in Nodes : LinkIds(lsdb[n]) \subseteq TopologyLinks

RecordsKept == \A n \in DOMAIN lsdb : LinkIds(lsdb[n]) \subseteq LinkIds(lsdb'[n])

LsdbContentState == ConvergedLsdbHoldsTopology /\ NoForeignLinkId

\* C35: on a connected topology, after flooding ended with a round without
\* change, every LSDB has exactly one record per link of the topology and
\* no other, with the link's cost; at every moment an LSDB holds link-ids
\* of the topology only, and no step removes a link-id from an LSDB.
ConvergedLsdbContent == []LsdbContentState /\ [][RecordsKept]_vars

\* flooded on a connected topology of three links, a router holding a link
\* it is not an endpoint of
ForeignLinkLearned ==
    /\ LsFlooded /\ ~any_change /\ Connected
    /\ Len(edges) = 3
    /\ \E n \in Nodes : \E r \in Range(lsdb[n]) : n \notin {r.link[1], r.link[2]}

\* ------------------------------------------------------------------------
\* Path-vector rounds and iteration order
\* ------------------------------------------------------------------------
\* shorter first, then the order of the identifiers' texts
PathLess(p, q) == Len(p) < Len(q) \/ (Len(p) = Len(q) /\ StrListLess(p, q))

LeastPath(S) == CHOOSE p \in S : \A q \in S \ {p} : PathLess(p, q)

\* what the neighbours of n advertise to it from the RIBs `ribs`
Offered(ribs, n) ==
    {<<a>> \o OthersOf(ribs[a]["P"], a) : a \in {b \in Range(neighbors[n]) : ribs[b]["P"] # NoPath}}

\* the RIBs one round makes of `ribs`, stated without an order: every node
\* holds the least of its own path and the offered paths it is not on
RoundResult(ribs) ==
    [n \in DOMAIN ribs |->
        [p \in Prefixes |->
            LET cands == {q \in Offered(ribs, n) : n \notin Range(q)}
                             \cup ({ribs[n]["P"]} \ {NoPath})
            IN  IF cands = {} THEN NoPath ELSE LeastPath(cands)]]

\* <<the RIBs, the number of rounds>> of a run from `ribs` after `done` rounds
RECURSIVE RunResult(_, _)
RunResult(ribs, done) ==
    IF done >= max_rounds THEN <<ribs, done>>
    ELSE IF RoundResult(ribs) = ribs THEN <<ribs, done + 1>>
    ELSE RunResult(RoundResult(ribs), done + 1)

OriginatedRibs == [a \in Nodes |-> [p \in Prefixes |-> IF a \in Originators THEN <<a>> ELSE NoPath]]

\* C36: whatever the order of the senders and of the neighbours, the RIBs at
\* the end of a round are a function of the RIBs at its start, and the RIBs
\* and the round count a first call of bgp_propagate returns are a function
\* of the originated RIBs, the topology and the budget.
RoundOrderIndependent ==
    /\ (pc = "bgp_send" /\ LoopEnded) => local_rib = RoundResult(snapshots)
    /\ (pc = "bgp_returned" /\ Len(returned) = 1 /\ withdrawals = 0)
           => /\ local_rib = RunResult(OriginatedRibs, 0)[1]
              /\ returned[1][1] = RunResult(OriginatedRibs, 0)[2]

\* a round ended, senders neither in ascending nor in descending order, in
\* which a node was offered two acceptable paths of the length it now stores
TieInUnsortedRound ==
    /\ pc = "bgp_send" /\ LoopEnded
    /\ all_nodes # SortNodes(Nodes) /\ all_nodes # Reverse(SortNodes(Nodes))
    /\ \E n \in Nodes :
          Cardinality({q \in Offered(snapshots, n) :
                          n \notin Range(q) /\ Len(q) = Len(local_rib[n]["P"])}) >= 2

\* ------------------------------------------------------------------------
\* Quiescence of flooding and of path-vector propagation
\* ------------------------------------------------------------------------
\* a round numbered n or more, n the number of nodes, ends without change
LateRoundQuiet ==
    (pc \in {"ls_send", "bgp_send"} /\ LoopEnded /\ rounds >= Len(all_nodes)) => ~any_change

\* flood_lsas stopped on a round without change, within n rounds
FloodQuiescent == LsFlooded => (~any_change /\ rounds <= Len(all_nodes))

\* with a budget of n or more, every call of bgp_propagate returned from a
\* round without change, within n rounds
PropagateQuiescent ==
    (pc \in {"bgp_idle", "bgp_loop", "bgp_send", "bgp_returned"} /\ max_rounds >= Len(all_nodes))
        => \A k \in DOMAIN returned : ~returned[k][2] /\ returned[k][1] <= Len(all_nodes)

\* C37: on every topology of n nodes, connected or not, flooding and, with
\* a budget of at least n, path-vector propagation come to a round without
\* change within n rounds; the budget is never what stops the run.
QuiescenceWithinN == LateRoundQuiet /\ FloodQuiescent /\ PropagateQuiescent

\* a first call of bgp_propagate that needed all n rounds of its budget n
AllRoundsNeeded ==
    /\ pc = "bgp_returned" /\ withdrawals = 0
    /\ max_rounds = Len(all_nodes)
    /\ returned = <<<<Len(all_nodes), FALSE>>>>

\* ------------------------------------------------------------------------
\* Go-Back-N
\* ------------------------------------------------------------------------
GbnRunning == pc \in {"gbn_while", "gbn_send", "gbn_ack", "gbn_done"}

\* the frames lo, lo + 1, ..., hi - 1 in order
FramesFrom(lo, hi) == [k \in 1..(hi - lo) |-> lo + k - 1]

Lesser(x, y) == IF x <= y THEN x ELSE y

WindowBounds ==
    /\ 0 <= gbn_b /\ gbn_b <= gbn_s
    /\ gbn_s <= Lesser(gbn_b + gbn_n, gbn_tf)

WindowState ==
    (GbnRunning /\ gbn_n >= 1)
        => /\ WindowBounds
           /\ pc = "gbn_while" => gbn_s = gbn_b
           /\ pc = "gbn_done" => gbn_b = gbn_tf

WindowStep ==
    (GbnRunning /\ gbn_n >= 1)
        => /\ gbn_b' >= gbn_b
           /\ gbn_b' # gbn_b
                 => /\ acks = FramesFrom(gbn_b, gbn_s)
                    /\ gbn_b' = gbn_s

\* C38: with n >= 1, in every state 0 <= b <= s <= min(b + n, tf); s = b at
\* the head of the outer loop; the function has returned only with b = tf;
\* no step lowers b, and a step that raises b raises it to s after an ACK
\* for every frame b..s-1 of the batch.
WindowInvariants == []WindowState /\ [][WindowStep]_vars

\* the window slid over a batch of two or more frames after the base had
\* already moved
SlidAfterFullBatch ==
    /\ pc = "gbn_while" /\ gbn_n >= 2
    /\ Len(acks) >= 2 /\ acked_successfully
    /\ gbn_b = gbn_s /\ acks[1] > 0 /\ gbn_b = Last(acks) + 1

\* a step of the response loop that found frame i, or its ACK, lost
LossFound == pc = "gbn_ack" /\ ~acked_successfully'

\* the timeout: s back at b, b as it was, the ACKs of b..i-1 notwithstanding,
\* and the response loop left at frame i
GoesBack ==
    LossFound
        => /\ gbn_s' = gbn_b /\ gbn_b' = gbn_b
           /\ acks = FramesFrom(gbn_b, gbn_i) /\ acks' = acks /\ gbn_i' = gbn_i
           /\ pc' = "gbn_while"

\* the sending loop of the iteration after a loss is done: every frame of
\* the window was sent again, the acknowledged ones and the lost one too
SentAgainFromBase ==
    (pc = "gbn_send" /\ pc' = "gbn_ack" /\ ~acked_successfully /\ gbn_n >= 1)
        => /\ sent = FramesFrom(gbn_b, Lesser(gbn_b + gbn_n, gbn_tf))
           /\ Range(acks) \subseteq Range(sent)
           /\ gbn_i \in Range(sent)

\* C39: when frame i of the batch or its ACK is lost, s is set back to b and
\* b stays, whatever frames b..i-1 were acknowledged; the frames after i are
\* not examined; the next iteration sends every frame from b again.
GoBackOnLoss == [][GoesBack /\ SentAgainFromBase]_vars

\* after a loss that followed an ACK, the acknowledged frames and the lost
\* one have been sent again
AckedFramesSentAgain ==
    /\ pc = "gbn_send" /\ ~acked_successfully
    /\ Len(acks) >= 1 /\ Len(sent) > Len(acks)
    /\ sent[1] = acks[1] /\ gbn_i \in Range(sent)

GbnCanDeliver == pc = "gbn_while" /\ gbn_n >= 1 /\ AckPossible(gbn_p)

GbnTerminated == pc = "gbn_done" /\ gbn_b = gbn_tf

\* C40: for every tf >= 0 and n >= 1, when loss is not chosen for ever,
\* go_back_n ends, and it ends with b = tf.
GbnTerminates == GbnCanDeliver ~> GbnTerminated

\* ended with all MaxFrames frames confirmed, under a loss probability
\* strictly between 0 and 1
TerminatedUnderLoss ==
    /\ GbnTerminated /\ gbn_tf = MaxFrames /\ gbn_n >= 1
    /\ LossPossible(gbn_p) /\ AckPossible(gbn_p)

\* ------------------------------------------------------------------------
\* The INF sentinel
\* ------------------------------------------------------------------------
\* simulate_rip(G, weighted=True) up to the loop, on graphs whose link costs
\* go up to INF
InitRipCostsToInf ==
    \E n \in 1..(MaxNodes - 1) :
      \E es \in EdgeLists(n, {1, INF - 1, INF}), mr \in 1..n :
        LET nodeSeq == [k \in 1..n |-> k]
            nbs == [u \in 1..n |-> NeighborList(EdgeTriples(es), u)]
        IN  /\ all_nodes = nodeSeq
            /\ edges = EdgeTriples(es)
            /\ neighbors = nbs
            /\ weighted = TRUE
            /\ max_rounds = mr
            /\ pc = "rip_loop"
            /\ cursor = <<1, 1>>
            /\ msg = NoMsg
            /\ dv = [u \in 1..n |-> InitialDV(u, nodeSeq, nbs, TRUE, EdgeTriples(es))]
            /\ snapshots = [u \in 1..n |-> <<>>]
            /\ round_no = 0
            /\ any_update = FALSE
            /\ updates_this_round = 0
            /\ updates_per_round = <<>>
            /\ rounds = 0
            /\ any_change = FALSE
            /\ IdleLs
            /\ IdleBgp
            /\ IdleSched
            /\ IdleRouter
            /\ IdleGbn

SpecRipCostsToInf == InitRipCostsToInf /\ [][NextRip]_vars

\* every stored cost lies between 0 and INF, and the entries without a next
\* hop are those of cost INF
StoredCostsSaturated ==
    \A u \in DOMAIN dv : \A d \in DOMAIN dv[u] :
        /\ 0 <= dv[u][d][1]
        /\ dv[u][d][1] <= INF
        /\ dv[u][d][2] = NoHop <=> dv[u][d][1] = INF

\* C23: with link costs between 1 and INF, a delivery never changes the
\* receiver's entry for a destination the sender advertises at cost INF, and
\* in every state every stored cost c has 0 <= c <= INF, with next hop None
\* exactly when c = INF.
InfSaturation ==
    /\ []StoredCostsSaturated
    /\ [][(pc = "rip_send" /\ ~LoopEnded)
             => \A dest \in DOMAIN snapshots[Sender] :
                   snapshots[Sender][dest][1] = INF
                       => dv'[Receiver][dest] = dv[Receiver][dest]]_vars

\* ------------------------------------------------------------------------
\* Specifications over several simulators
\* ------------------------------------------------------------------------
SpecRipLs == (InitRip \/ InitLs) /\ [][NextRip \/ NextLs]_vars

SpecAll == (InitRip \/ InitLs \/ InitBgp) /\ [][NextRip \/ NextLs \/ NextBgp]_vars

SpecLsBgp == (InitLs \/ InitBgp) /\ [][NextLs \/ NextBgp]_vars

====
